---- MODULE Spec2Model ----
(***************************************************************************)
(* Model of the tool-execution loop of MCP_Host's llm.MCPClient            *)
(* (Generate / ExecuteAndFeedback / executeToolsLoop) together with the    *)
(* parts of MCPHost it drives (EnsureConnection, ExecuteTool, ListTools).  *)
(*                                                                         *)
(* Strings are modelled structurally.  A generation's content is a         *)
(* sequence of tokens: plain text, the marker "</think>", or one tag       *)
(* block "<tag>body</tag>".  The body of a block is a JSON text, named by  *)
(* an identifier; ParseJSON gives what json.Unmarshal into QwenToolCall    *)
(* yields for it.  A dotted name is the sequence of its parts, so that     *)
(* strings.Split(name, ".") is the identity on that sequence.              *)
(***************************************************************************)
EXTENDS Integers, Sequences, FiniteSets, TLC

VARIABLES
    pc,              \* position of the Generate call
    opts,            \* the merged GenerateOptions of the call
    connections,     \* MCPHost.connections: serverID -> connection type
    script,          \* per server, how it answers the Host calls to come
    tools,           \* catalog handed to the LLM by WithTools (qualified names)
    listOk,          \* servers whose listTools succeeded while building tools
    textCatalog,     \* last text rendering of the catalog (qualified names)
    textListOk,      \* servers whose listTools succeeded for that rendering
    gen,             \* state.gen: the initial generation
    currentGen,      \* state.currentGen
    allTaskResults,  \* state.allTaskResults: the ledger
    executionRound,  \* state.executionRound
    capturedOutput,  \* state.capturedOutput
    hasExecuted,     \* hasExecutedTools of the round just run
    llmLog,          \* one entry per LLM call made
    callLog,         \* one entry per Host.ExecuteTool call made
    sink,            \* what the caller's StreamingFunc received, in order
    events,          \* what the caller's StateNotifyFunc received, in order
    ret,             \* what Generate returned
    registry,        \* MCPHost.connections as objects: serverID -> client index
    clients,         \* every MCP client (transport) the Host has created
    thread,          \* per calling thread, the Host operation it is in
    stream           \* the handleStreamResponse call of the OpenAI client

vars == <<pc, opts, connections, script, tools, listOk, textCatalog, textListOk, gen,
          currentGen, allTaskResults, executionRound, capturedOutput,
          hasExecuted, llmLog, callLog, sink, events, ret,
          registry, clients, thread, stream>>

\* the variables of the Generate call, and those of the concurrent Host
genVars == <<pc, opts, connections, script, tools, listOk, textCatalog, textListOk, gen,
             currentGen, allTaskResults, executionRound, capturedOutput,
             hasExecuted, llmLog, callLog, sink, events, ret>>
hostVars == <<registry, clients, thread>>
\* the variable of the streamed completion the LLM client reads
streamVars == <<stream>>

(***************************************************************************)
(* Bounds                                                                  *)
(***************************************************************************)
\* largest configured MCPMaxToolExecutionRounds explored
MaxRounds == 2

(***************************************************************************)
(* Program constants                                                       *)
(***************************************************************************)
TextMode == "text"
FunctionCallMode == "function_call"
MCP_DEFAULT_TASK_TAG == "MCP_HOST_TASK"
MCP_DEFAULT_RESULT_TAG == "MCP_HOST_RESULT"
FallbackTag == "tools"
\* executeToolsLoop: the budget used when the configured one is <= 0
DefaultLoopRounds == 3

(***************************************************************************)
(* The servers of the run and the tools each one lists                     *)
(***************************************************************************)
Servers == {"srv1", "srv2"}
ServerTools == [s \in Servers |->
                  IF s = "srv1" THEN {"echo", "danger"} ELSE {"time"}]

Qualified(s, t) == <<s, t>>
AllQualified == {Qualified(s, t) : s \in Servers, t \in {"echo", "danger", "time"}}

(***************************************************************************)
(* Content tokens                                                          *)
(***************************************************************************)
Text(v) == [k |-> "text", tag |-> "", body |-> v]
Think == [k |-> "think", tag |-> "", body |-> ""]
Block(tag, body) == [k |-> "block", tag |-> tag, body |-> body]
ResultOpen(tag) == [k |-> "open", tag |-> tag, body |-> ""]

(***************************************************************************)
(* JSON texts the LLM may put in a tag block, and their decoding into a    *)
(* QwenToolCall {name, arguments}.  An MCP-form object has no "name" key,  *)
(* so its Name decodes to the empty string, whose split is <<"">>.         *)
(***************************************************************************)
ParseJSON(text) ==
    CASE text = "jEcho"   -> [ok |-> TRUE,  name |-> <<"srv1", "echo">>]
      [] text = "jEcho2"  -> [ok |-> TRUE,  name |-> <<"srv1", "echo">>]
      [] text = "jTime"   -> [ok |-> TRUE,  name |-> <<"srv2", "time">>]
      [] text = "jDanger" -> [ok |-> TRUE,  name |-> <<"srv1", "danger">>]
      [] text = "jMcp"    -> [ok |-> TRUE,  name |-> <<"">>]
      [] text = "jDotted" -> [ok |-> TRUE,  name |-> <<"srv1", "ns", "echo">>]
      [] text = "jBlank"  -> [ok |-> TRUE,  name |-> <<" ", "echo">>]
      [] OTHER            -> [ok |-> FALSE, name |-> <<>>]

(***************************************************************************)
(* Sequence helpers                                                        *)
(***************************************************************************)
Range(seq) == {seq[i] : i \in 1..Len(seq)}

\* strings.TrimSpace on the few strings the model uses
TrimSpace(str) == IF str = " " THEN "" ELSE str

(***************************************************************************)
(* Task parser                                                             *)
(***************************************************************************)
\* taskRegex(tag).FindAll on content: the tag blocks wrapped in that tag
RegexMatches(content, tag) ==
    SelectSeq(content, LAMBDA tok : tok.k = "block" /\ tok.tag = tag)

\* taskRegex(tag).MatchString(content)
RegexMatchString(content, tag) == RegexMatches(content, tag) # <<>>

containsMCPTasks(content, taskTag) ==
    \/ RegexMatchString(content, taskTag)
    \/ RegexMatchString(content, FallbackTag)

\* content[lastIndex+8:] for the last "</think>", or content when absent
AfterLastThink(content) ==
    LET idx == {i \in 1..Len(content) : content[i].k = "think"}
    IN  IF idx = {} THEN content
        ELSE LET last == CHOOSE i \in idx : \A j \in idx : j <= i
             IN  SubSeq(content, last + 1, Len(content))

RECURSIVE ExtractLoop(_, _, _)
\* the loop of extractMCPTasks over the matches, from match i on
ExtractLoop(matches, i, tasks) ==
    IF i > Len(matches) THEN [tasks |-> tasks, err |-> ""]
    ELSE LET toolCallJSON == matches[i].body
             toolCall == ParseJSON(toolCallJSON)
             names == toolCall.name
         IN  IF ~toolCall.ok THEN [tasks |-> tasks, err |-> "json"]
             ELSE IF Len(names) # 2 THEN [tasks |-> tasks, err |-> "invalid tool name"]
             ELSE LET task == [server |-> TrimSpace(names[1]),
                               tool   |-> TrimSpace(names[2]),
                               text   |-> toolCallJSON]
                  IN  IF task.server = "" \/ task.tool = ""
                      THEN [tasks |-> tasks, err |-> "invalid tool name"]
                      ELSE ExtractLoop(matches, i + 1, Append(tasks, task))

extractMCPTasks(content, taskTag) ==
    ExtractLoop(RegexMatches(AfterLastThink(content), taskTag), 1, <<>>)

\* MCPClient.ExtractMCPTasks
ExtractMCPTasks(content, taskTag) ==
    IF TrimSpace(taskTag) = "" THEN [tasks |-> <<>>, err |-> "blank taskTag"]
    ELSE extractMCPTasks(content, TrimSpace(taskTag))

(***************************************************************************)
(* MCPHost, as driven sequentially by one Generate call.  The host state   *)
(* is the registry together with, per server, the script of how the server *)
(* answers the Host calls still to come: whether its ping answers, whether *)
(* an SSE reconnect succeeds, and whether the forwarded RPC succeeds.  A   *)
(* server whose script is used up is healthy.                              *)
(***************************************************************************)
Healthy  == [ping |-> TRUE,  reconn |-> TRUE,  call |-> TRUE]
RpcFail  == [ping |-> TRUE,  reconn |-> TRUE,  call |-> FALSE]
PingFail == [ping |-> FALSE, reconn |-> TRUE,  call |-> TRUE]
Dead     == [ping |-> FALSE, reconn |-> FALSE, call |-> FALSE]

Remove(conns, s) == [x \in (DOMAIN conns) \ {s} |-> conns[x]]

\* MCPHost.EnsureConnection under outcome o: the registry afterwards, the
\* error returned, and whether the connection returned is one that was just
\* disconnected
EnsureConnection(conns, s, o) ==
    IF o.ping
    THEN [conns |-> conns, err |-> "", stale |-> FALSE]
    ELSE IF conns[s] = "sse"
    THEN IF o.reconn
         THEN [conns |-> conns, err |-> "", stale |-> FALSE]
         ELSE [conns |-> Remove(conns, s), err |-> "can not reconnect", stale |-> FALSE]
    ELSE [conns |-> Remove(conns, s), err |-> "", stale |-> TRUE]

\* MCPHost.ExecuteTool / MCPHost.ListTools on host state h: EnsureConnection,
\* then the RPC on the connection it returned
HostCall(h, s) ==
    IF s \notin DOMAIN h.conns
    THEN [h |-> h, rpc |-> FALSE, err |-> "no connection found", stale |-> FALSE]
    ELSE LET o == IF h.script[s] = <<>> THEN Healthy ELSE Head(h.script[s])
             scr == [h.script EXCEPT ![s] = IF @ = <<>> THEN @ ELSE Tail(@)]
             e == EnsureConnection(h.conns, s, o)
             h2 == [conns |-> e.conns, script |-> scr]
         IN  IF e.err # ""
             THEN [h |-> h2, rpc |-> FALSE, err |-> e.err, stale |-> FALSE]
             ELSE [h |-> h2, rpc |-> TRUE,
                   err |-> IF o.call THEN "" ELSE "rpc failed", stale |-> e.stale]

ExecuteTool(h, s) == HostCall(h, s)
ListTools(h, s) == HostCall(h, s)

(***************************************************************************)
(* Tool catalog                                                            *)
(***************************************************************************)
\* the host state after each server of the snapshot went through its calls,
\* given per server the host state its own calls leave
Joined(h, after) ==
    [conns  |-> [s \in {x \in DOMAIN h.conns : x \in DOMAIN after[x].conns}
                   |-> h.conns[s]],
     script |-> [s \in DOMAIN h.script |->
                   IF s \in DOMAIN h.conns THEN after[s].script[s] ELSE h.script[s]]]

createMCPToolsMutant(h, disabledTools) ==
    LET ok == {s \in DOMAIN h.conns : ListTools(h, s).err = ""}
    IN  [tools |-> {q \in AllQualified : q[1] \in ok /\ q[2] \in ServerTools[q[1]]},
         ok    |-> ok,
         h     |-> Joined(h, [s \in DOMAIN h.conns |-> ListTools(h, s).h])]

\* MCPClient.createMCPTools: one ListTools per connection of the snapshot;
\* a failing server is skipped, a disabled tool is skipped
createMCPTools(h, disabledTools) ==
    LET ok == {s \in DOMAIN h.conns : ListTools(h, s).err = ""}
    IN  [tools |-> {q \in AllQualified :
                       /\ q[1] \in ok
                       /\ q[2] \in ServerTools[q[1]]
                       /\ q \notin disabledTools},
         ok    |-> ok,
         h     |-> Joined(h, [s \in DOMAIN h.conns |-> ListTools(h, s).h])]

\* MCPClient.formatMCPToolsAsText: ListTools is retried once when it fails;
\* a server all of whose tools are disabled is left out.  (The further retry
\* for an empty tool list does not arise: every server lists a tool.)
formatMCPToolsAsText(h, disabledTools) ==
    LET first(s)  == ListTools(h, s)
        final(s)  == IF first(s).err = "" THEN first(s)
                     ELSE ListTools(first(s).h, s)
        ok == {s \in DOMAIN h.conns : final(s).err = ""}
        serverHasTools(s) ==
            \E t \in ServerTools[s] : Qualified(s, t) \notin disabledTools
    IN  [tools |-> {q \in AllQualified :
                       /\ q[1] \in ok
                       /\ serverHasTools(q[1])
                       /\ q[2] \in ServerTools[q[1]]
                       /\ q \notin disabledTools},
         ok    |-> ok,
         h     |-> Joined(h, [s \in DOMAIN h.conns |-> final(s).h])]

(***************************************************************************)
(* Generations and LLM replies                                             *)
(***************************************************************************)
EmptyInfo == [hasRounds |-> FALSE, rounds |-> 0,
              hasTaskResults |-> FALSE, taskResults |-> <<>>,
              tool |-> {}]

NoGen == [id |-> -1, content |-> <<>>, toolCalls |-> <<>>, info |-> EmptyInfo,
          mode |-> "", taskTag |-> "", resultTag |-> ""]

Call(id, name, argsOk) == [id |-> id, name |-> name, argsOk |-> argsOk]

\* what the LLM may answer to a call
ReplyTable ==
    [ rAns    |-> [content |-> <<Text("answer")>>, toolCalls |-> <<>>],
      rEcho   |-> [content |-> <<Text("let me see"), Block(MCP_DEFAULT_TASK_TAG, "jEcho")>>,
                   toolCalls |-> <<>>],
      rTime   |-> [content |-> <<Block(MCP_DEFAULT_TASK_TAG, "jTime")>>, toolCalls |-> <<>>],
      rDanger |-> [content |-> <<Block(MCP_DEFAULT_TASK_TAG, "jDanger")>>, toolCalls |-> <<>>],
      rEcho2  |-> [content |-> <<Block(MCP_DEFAULT_TASK_TAG, "jEcho2")>>, toolCalls |-> <<>>],
      rThink  |-> [content |-> <<Block(MCP_DEFAULT_TASK_TAG, "jEcho"), Think, Text("answer")>>,
                   toolCalls |-> <<>>],
      rThink2 |-> [content |-> <<Block(MCP_DEFAULT_TASK_TAG, "jTime"), Think,
                                 Block(MCP_DEFAULT_TASK_TAG, "jEcho")>>,
                   toolCalls |-> <<>>],
      rDup    |-> [content |-> <<Block(MCP_DEFAULT_TASK_TAG, "jEcho"),
                                 Block(MCP_DEFAULT_TASK_TAG, "jEcho")>>,
                   toolCalls |-> <<>>],
      rTools  |-> [content |-> <<Block(FallbackTag, "jTime")>>, toolCalls |-> <<>>],
      rBad    |-> [content |-> <<Block(MCP_DEFAULT_TASK_TAG, "jBad")>>, toolCalls |-> <<>>],
      rBadMix |-> [content |-> <<Block(MCP_DEFAULT_TASK_TAG, "jBad"),
                                 Block(MCP_DEFAULT_TASK_TAG, "jTime")>>,
                   toolCalls |-> <<>>],
      rBlank  |-> [content |-> <<Block(MCP_DEFAULT_TASK_TAG, "jTime"),
                                 Block(MCP_DEFAULT_TASK_TAG, "jBlank")>>,
                   toolCalls |-> <<>>],
      rMcp    |-> [content |-> <<Block(MCP_DEFAULT_TASK_TAG, "jMcp")>>, toolCalls |-> <<>>],
      rDotted |-> [content |-> <<Block(MCP_DEFAULT_TASK_TAG, "jDotted")>>,
                   toolCalls |-> <<>>],
      rTwo    |-> [content |-> <<Block(MCP_DEFAULT_TASK_TAG, "jEcho"),
                                 Block(MCP_DEFAULT_TASK_TAG, "jTime")>>,
                   toolCalls |-> <<>>],
      rCall   |-> [content |-> <<Text("calling")>>,
                   toolCalls |-> <<Call("c1", <<"srv1", "echo">>, TRUE)>>],
      rCalls  |-> [content |-> <<>>,
                   toolCalls |-> <<Call("c2", <<"srv1", "danger">>, TRUE),
                                   Call("c3", <<"srv2", "time">>, TRUE)>>],
      rCallX  |-> [content |-> <<Text("calling")>>,
                   toolCalls |-> <<Call("c4", <<"echo">>, TRUE)>>] ]

\* replies explored at every LLM call, and those explored for the first only
CoreReplies(mode) ==
    IF mode = TextMode THEN {"rAns", "rEcho", "rTime", "rDanger", "rEcho2", "rTwo"}
    ELSE {"rAns", "rCall", "rCalls"}
FirstReplies(mode) ==
    IF mode = TextMode THEN CoreReplies(mode) \cup {"rThink", "rThink2", "rDup", "rTools", "rBad", "rCall", "rBadMix", "rBlank",
                                                  "rMcp", "rDotted"}
    ELSE CoreReplies(mode) \cup {"rCallX", "rEcho"}

\* the Generation an LLM call returns for a reply (OpenAIClient.GenerateContent)
LLMGeneration(id, reply) ==
    [id |-> id, content |-> ReplyTable[reply].content,
     toolCalls |-> ReplyTable[reply].toolCalls, info |-> EmptyInfo,
     mode |-> "", taskTag |-> "", resultTag |-> ""]

\* the deltas a streamed LLM call hands to its StreamingFunc, in order
Delta(tok) == [k |-> "delta", tok |-> tok, batch |-> <<>>]
Batch(infos) == [k |-> "results", tok |-> Text(""), batch |-> infos]
Deltas(content) == [i \in 1..Len(content) |-> Delta(content[i])]

Event(type, stage, server, tool, round, n) ==
    [type |-> type, stage |-> stage, server |-> server, tool |-> tool,
     round |-> round, n |-> n, data |-> ""]
ToolEvent(type, stage, server, tool, data) ==
    [type |-> type, stage |-> stage, server |-> server, tool |-> tool,
     round |-> 0, n |-> 0, data |-> data]

\* StateNotifyFunc is called only when it is set
Notify(evs) == IF opts.notify THEN events \o evs ELSE events

(***************************************************************************)
(* Initial states: one Generate call about to be made                      *)
(***************************************************************************)
Disabled == {Qualified("srv1", "danger")}

BothServers == [s \in Servers |-> IF s = "srv1" THEN "sse" ELSE "stdio"]
OnlyStdio == [s \in {"srv1"} |-> "stdio"]
AllHealthy == [s \in Servers |-> <<>>]

\* what the caller's StateNotifyFunc does when it is called: return nil,
\* return an error, or panic
Callbacks == {"nil", "error", "panic"}

\* the options explored while every server is healthy
LoopOptions ==
    {o \in [mode      : {TextMode, FunctionCallMode},
            auto      : BOOLEAN,
            maxRounds : 0..MaxRounds,
            taskTag   : {MCP_DEFAULT_TASK_TAG},
            resultTag : {MCP_DEFAULT_RESULT_TAG},
            stream    : BOOLEAN,
            notify    : BOOLEAN,
            callback  : Callbacks,
            disabled  : {Disabled},
            entry     : {"Generate"},
            systemPrompt : {"sys"}] :
        o.callback # "nil" => o.notify}

\* the options explored with every registry, disabled list and server script
HostOptions ==
    [mode      : {TextMode, FunctionCallMode},
     auto      : {TRUE},
     maxRounds : {1, 2},
     taskTag   : {MCP_DEFAULT_TASK_TAG},
     resultTag : {MCP_DEFAULT_RESULT_TAG},
     stream    : {TRUE},
     notify    : {TRUE},
     callback  : {"nil"},
     disabled  : {{}, Disabled},
     entry     : {"Generate"},
     systemPrompt : {"sys"}]

\* the options explored for the two entry points and the system prompt
PromptOptions ==
    [mode      : {TextMode, FunctionCallMode},
     auto      : {TRUE},
     maxRounds : {1},
     taskTag   : {MCP_DEFAULT_TASK_TAG},
     resultTag : {MCP_DEFAULT_RESULT_TAG},
     stream    : {FALSE},
     notify    : {TRUE},
     callback  : {"nil"},
     disabled  : {Disabled},
     entry     : {"Generate", "GenerateContent"},
     systemPrompt : {"", " ", "sys"}]

\* the options explored with the fallback tag as the configured task tag
TagOptions ==
    [mode      : {TextMode},
     auto      : {TRUE},
     maxRounds : {1},
     taskTag   : {FallbackTag},
     resultTag : {MCP_DEFAULT_RESULT_TAG},
     stream    : {FALSE},
     notify    : {FALSE},
     callback  : {"nil"},
     disabled  : {Disabled},
     entry     : {"Generate"},
     systemPrompt : {"sys"}]

\* how an unhealthy server answers its first Host calls
Scripts == {<<>>, <<RpcFail>>, <<Dead>>, <<Healthy, RpcFail>>, <<Healthy, PingFail>>}

Scenarios ==
    [opts : LoopOptions, conns : {BothServers}, script : {AllHealthy}]
    \cup
    [opts : PromptOptions, conns : {BothServers}, script : {AllHealthy}]
    \cup
    [opts : TagOptions, conns : {BothServers}, script : {AllHealthy}]
    \cup
    [opts : HostOptions, conns : {BothServers, OnlyStdio},
     script : [Servers -> Scripts]]

Init ==
    /\ pc = "idle"
    /\ \E sc \in Scenarios :
          /\ opts = sc.opts
          /\ connections = sc.conns
          /\ script = sc.script
    /\ tools = {}
    /\ listOk = {}
    /\ textCatalog = {}
    /\ textListOk = {}
    /\ gen = NoGen
    /\ currentGen = NoGen
    /\ allTaskResults = <<>>
    /\ executionRound = 0
    /\ capturedOutput = <<>>
    /\ hasExecuted = FALSE
    /\ llmLog = <<>>
    /\ callLog = <<>>
    /\ sink = <<>>
    /\ events = <<>>
    /\ ret = [status |-> "none", gen |-> NoGen]
    /\ registry = <<>>
    /\ clients = <<>>
    /\ thread = <<>>
    /\ stream = <<>>

\* the host state
Host == [conns |-> connections, script |-> script]

maxRoundsOfMutant(o) == IF o.maxRounds <= 0 THEN DefaultLoopRounds ELSE o.maxRounds + 1

\* executeToolsLoop: the budget the loop enforces
maxRoundsOf(o) == IF o.maxRounds <= 0 THEN DefaultLoopRounds ELSE o.maxRounds

LLMEntry(kind, guidance, reply, nResults, withTools, messages) ==
    [kind |-> kind, guidance |-> guidance, reply |-> reply,
     results |-> nResults, tools |-> withTools, messages |-> messages]

\* a chat message: its role, the template or text its content is built from
\* and, for a result message, the ledger entry or call id it reports
Message(role, of, ref) == [role |-> role, of |-> of, ref |-> ref]

\* the messages of the first LLM call: in TextMode Generate puts the system
\* prompt before the caller's messages
InitialMessages(o) ==
    IF o.mode = TextMode
    THEN <<Message("system", "systemPrompt", <<>>), Message("user", "prompt", <<>>)>>
    ELSE <<Message("user", "prompt", <<>>)>>

\* MCPClient.hasToolCalls
hasToolCalls(g) ==
    \/ g.mode = TextMode /\ containsMCPTasks(g.content, g.taskTag)
    \/ g.mode = FunctionCallMode /\ Len(g.toolCalls) > 0

BlankPromptMutant(o) == o.mode = TextMode /\ o.systemPrompt = ""

\* Generate / GenerateContent: the TextMode test of the system prompt
BlankPrompt(o) == o.mode = TextMode /\ TrimSpace(o.systemPrompt) = ""

\* Generate / GenerateContent return "system prompt template is blank"
RejectBlankPrompt ==
    /\ UNCHANGED <<hostVars, streamVars>>
    /\ pc = "idle"
    /\ BlankPrompt(opts)
    /\ pc' = "done"
    /\ ret' = [status |-> "error", gen |-> NoGen]
    /\ UNCHANGED <<opts, connections, script, tools, listOk, textCatalog, textListOk,
                   gen, currentGen, allTaskResults, executionRound, capturedOutput,
                   hasExecuted, llmLog, callLog, sink, events>>

(***************************************************************************)
(* MCPClient.Generate up to the return of the first LLM call               *)
(***************************************************************************)
GenerateCall ==
    /\ UNCHANGED <<hostVars, streamVars>>
    /\ pc = "idle"
    /\ ~BlankPrompt(opts)
    /\ \E reply \in FirstReplies(opts.mode) \cup {"fail"} :
          LET cat == createMCPTools(Host, opts.disabled)
              g   == [LLMGeneration(1, reply) EXCEPT
                         !.mode = opts.mode,
                         !.taskTag = opts.taskTag,
                         !.resultTag = IF opts.mode = TextMode
                                       THEN opts.resultTag ELSE ""]
          IN  /\ tools' = cat.tools
              /\ listOk' = cat.ok
              /\ connections' = cat.h.conns
              /\ script' = cat.h.script
              /\ llmLog' = Append(llmLog, LLMEntry("initial", "none", reply, 0, cat.tools,
                                                 InitialMessages(opts)))
              /\ IF reply = "fail"
                 THEN /\ pc' = "done"
                      /\ ret' = [status |-> "error", gen |-> NoGen]
                      /\ UNCHANGED <<gen, currentGen, sink>>
                 ELSE /\ pc' = "generated"
                      /\ gen' = g
                      /\ currentGen' = g
                      /\ sink' = IF opts.stream THEN sink \o Deltas(g.content) ELSE sink
                      /\ ret' = ret
    /\ UNCHANGED <<opts, textCatalog, textListOk, allTaskResults, executionRound,
                   capturedOutput, hasExecuted, callLog, events>>

\* MCPClient.appendToolCallsToContent: one tag block per well-formed call
EchoBlock(tag, call) == [k |-> "echo", tag |-> tag, body |-> call.id]
appendToolCallsToContent(g, taskTag) ==
    IF Len(g.toolCalls) = 0 THEN g
    ELSE LET okCalls == SelectSeq(g.toolCalls,
                           LAMBDA c : Len(c.name) = 2 /\ c.argsOk)
         IN  [g EXCEPT !.content =
                 g.content \o <<Text("\n\n")>>
                           \o [i \in 1..Len(okCalls) |-> EchoBlock(taskTag, okCalls[i])]]

\* Generate returns the first generation: auto-execute is off, or
\* ExecuteAndFeedback finds no tool call in it
ReturnFirst ==
    /\ UNCHANGED <<hostVars, streamVars>>
    /\ pc = "generated"
    /\ ~opts.auto \/ ~hasToolCalls(gen)
    /\ ret' = [status |-> "ok",
               gen |-> IF opts.mode = FunctionCallMode /\ ~opts.auto
                       THEN appendToolCallsToContent(gen, opts.taskTag)
                       ELSE gen]
    /\ pc' = "done"
    /\ UNCHANGED <<opts, connections, script, tools, listOk, textCatalog, textListOk, gen,
                   currentGen, allTaskResults, executionRound, capturedOutput,
                   hasExecuted, llmLog, callLog, sink, events>>

\* the StateNotifyFunc is set and panics when it is called: no caller of it
\* between Generate and the callback recovers
NotifyPanics(o) == o.notify /\ o.callback = "panic"

ExecuteAndFeedbackMutant ==
    /\ UNCHANGED <<hostVars, streamVars>>
    /\ pc = "generated"
    /\ hasToolCalls(gen)
    /\ allTaskResults' = <<>>
    /\ executionRound' = 0
    /\ capturedOutput' = gen.content
    /\ currentGen' = gen
    /\ events' = Notify(<<Event("process_start", "start", "", "", 0, 0)>>)
    /\ IF NotifyPanics(opts)
       THEN /\ pc' = "done"
            /\ ret' = [status |-> "panic", gen |-> NoGen]
       ELSE /\ pc' = "loop"
            /\ ret' = ret
    /\ UNCHANGED <<opts, connections, script, tools, listOk, textCatalog, textListOk, gen,
                   hasExecuted, llmLog, callLog, sink>>

\* ExecuteAndFeedback: NewExecutionState and notifyExecutionStart; a panic
\* of the callback unwinds the Generate call
ExecuteAndFeedback ==
    /\ UNCHANGED <<hostVars, streamVars>>
    /\ pc = "generated"
    /\ opts.auto
    /\ hasToolCalls(gen)
    /\ allTaskResults' = <<>>
    /\ executionRound' = 0
    /\ capturedOutput' = gen.content
    /\ currentGen' = gen
    /\ events' = Notify(<<Event("process_start", "start", "", "", 0, 0)>>)
    /\ IF NotifyPanics(opts)
       THEN /\ pc' = "done"
            /\ ret' = [status |-> "panic", gen |-> NoGen]
       ELSE /\ pc' = "loop"
            /\ ret' = ret
    /\ UNCHANGED <<opts, connections, script, tools, listOk, textCatalog, textListOk, gen,
                   hasExecuted, llmLog, callLog, sink>>

\* executeToolsLoop: the loop test, executionRound++ and notifyRoundStart
RoundStart ==
    /\ UNCHANGED <<hostVars, streamVars>>
    /\ pc = "loop"
    /\ IF executionRound < maxRoundsOf(opts)
       THEN /\ executionRound' = executionRound + 1
            /\ events' = Notify(<<Event("execution_round", "start", "", "",
                                        executionRound + 1, opts.maxRounds)>>)
            /\ pc' = "round"
       ELSE /\ pc' = "finish"
            /\ UNCHANGED <<executionRound, events>>
    /\ UNCHANGED <<opts, connections, script, tools, listOk, textCatalog, textListOk, gen,
                   currentGen, allTaskResults, capturedOutput, hasExecuted,
                   llmLog, callLog, sink, ret>>

(***************************************************************************)
(* One round in TextMode                                                   *)
(***************************************************************************)
\* what a successful callTool of a tool returns (result.Content)
ContentOf(tool) == tool

CallEntry(server, tool, text, id, x) ==
    [server |-> server, tool |-> tool, text |-> text, id |-> id,
     rpc |-> x.rpc, stale |-> x.stale, err |-> x.err]

RECURSIVE TaskLoopMutant(_, _, _, _)
TaskLoopMutant(tasks, i, h, executed) ==
    IF i > Len(tasks) THEN [results |-> <<>>, h |-> h, calls |-> <<>>]
    ELSE LET task == tasks[i]
             x    == ExecuteTool(h, task.server)
             res  == [task   |-> task,
                      result |-> IF x.err = "" THEN ContentOf(task.tool) ELSE "",
                      error  |-> x.err]
             rest == TaskLoopMutant(tasks, i + 1, x.h, executed)
         IN  [results |-> <<res>> \o rest.results,
              h       |-> rest.h,
              calls   |-> <<CallEntry(task.server, task.tool, task.text, "", x)>>
                             \o rest.calls]

RECURSIVE TaskLoop(_, _, _, _)
\* TASK_LOOP of processMCPTasksWithResults from task i on: a task whose text
\* is in the ledger is skipped, every other one goes to Host.ExecuteTool
TaskLoop(tasks, i, h, executed) ==
    IF i > Len(tasks) THEN [results |-> <<>>, h |-> h, calls |-> <<>>]
    ELSE IF tasks[i].text \in executed
    THEN TaskLoop(tasks, i + 1, h, executed)
    ELSE LET task == tasks[i]
             x    == ExecuteTool(h, task.server)
             res  == [task   |-> task,
                      result |-> IF x.err = "" THEN ContentOf(task.tool) ELSE "",
                      error  |-> x.err]
             rest == TaskLoop(tasks, i + 1, x.h, executed)
         IN  [results |-> <<res>> \o rest.results,
              h       |-> rest.h,
              calls   |-> <<CallEntry(task.server, task.tool, task.text, "", x)>>
                             \o rest.calls]

\* the tasks processMCPTasksWithResults parses from the current generation:
\* the configured tag first, then the fallback tag
ParsedTasks(content, taskTag) ==
    LET tag  == IF taskTag # "" THEN taskTag ELSE MCP_DEFAULT_TASK_TAG
        t1   == ExtractMCPTasks(content, tag)
        t2   == ExtractMCPTasks(content, FallbackTag)
    IN  IF t1.err # "" THEN [tasks |-> t1.tasks, err |-> t1.err]
        ELSE IF t2.err # "" THEN [tasks |-> t1.tasks, err |-> t2.err]
        ELSE [tasks |-> t1.tasks \o t2.tasks, err |-> ""]

\* MCPClient.createToolExecutionResult
createToolExecutionResult(result) ==
    [server |-> result.task.server, tool |-> result.task.tool, id |-> "",
     status |-> IF result.error # "" THEN "error" ELSE "success",
     result |-> IF result.error # "" THEN "" ELSE result.result,
     error  |-> result.error]

\* the events streamTextModeResults emits: tool_call then tool_result, per result
TextResultEvents(results) ==
    [j \in 1..(2 * Len(results)) |->
        LET r == results[(j + 1) \div 2]
        IN  IF j % 2 = 1
            THEN ToolEvent("tool_call", "start", r.task.server, r.task.tool, "args")
            ELSE ToolEvent("tool_result", "complete", r.task.server, r.task.tool,
                           IF r.error # "" THEN r.error ELSE r.result)]

AppendResultsMutant(ledger, results) == results

\* executeTextModeRound: state.allTaskResults = append(state.allTaskResults,
\* roundTaskResults...)
AppendResults(ledger, results) == ledger \o results

executeTextModeRoundMutant(tasks, results) ==
    Len(results) = 0

\* executeTextModeRound: the round ends the loop when nothing was parsed
NothingToDo(tasks, results) ==
    Len(tasks) = 0 /\ Len(results) = 0

\* executeTextModeRound, with processMCPTasksWithResults and
\* streamTextModeResults; parsed and run are the values the two calls return
ExecuteTextModeRound ==
    /\ UNCHANGED <<hostVars, streamVars>>
    /\ pc = "round"
    /\ currentGen.mode = TextMode
    /\ \E parsed \in {ParsedTasks(currentGen.content, opts.taskTag)} :
       LET executed == {allTaskResults[i].task.text : i \in 1..Len(allTaskResults)}
           start == Event("extracting_tasks", "start", "", "", executionRound, 0)
       IN  IF parsed.err # ""
           THEN /\ pc' = "done"
                /\ ret' = [status |-> "error", gen |-> NoGen]
                /\ events' = Notify(<<start>>)
                /\ UNCHANGED <<connections, script, allTaskResults, capturedOutput,
                               hasExecuted, callLog, sink>>
           ELSE \E run \in {TaskLoop(parsed.tasks, 1, Host, executed)} :
                LET done == Event("extracting_tasks", "complete", "", "",
                                  executionRound, Len(run.results))
                    nothing == NothingToDo(parsed.tasks, run.results)
                    streamed == ~nothing /\ opts.stream
                    infos == [i \in 1..Len(run.results) |->
                                 createToolExecutionResult(run.results[i])]
                IN  /\ connections' = run.h.conns
                    /\ script' = run.h.script
                    /\ callLog' = callLog \o
                          [i \in 1..Len(run.calls) |->
                              [round |-> executionRound] @@ run.calls[i]]
                    /\ hasExecuted' = ~nothing
                    /\ allTaskResults' = IF nothing THEN allTaskResults
                                         ELSE AppendResults(allTaskResults, run.results)
                    /\ events' = Notify(<<start, done>> \o
                                        (IF streamed THEN TextResultEvents(run.results)
                                         ELSE <<>>))
                    /\ capturedOutput' =
                          IF streamed /\ Len(infos) > 0
                          THEN Append(capturedOutput, ResultOpen(currentGen.resultTag))
                          ELSE capturedOutput
                    /\ sink' = IF streamed /\ Len(infos) > 0
                               THEN Append(sink, Batch(infos)) ELSE sink
                    /\ pc' = "afterRound"
                    /\ ret' = ret
    /\ UNCHANGED <<opts, tools, listOk, textCatalog, textListOk, gen, currentGen,
                   executionRound, llmLog>>

(***************************************************************************)
(* One round in FunctionCallMode                                           *)
(***************************************************************************)
\* gen.GenerationInfo[kind_id] = val
PutInfo(info, kind, id, val) ==
    {e \in info : ~(e[1] = kind /\ e[2] = id)} \cup {<<kind, id, val>>}

RECURSIVE CallLoopMutant(_, _, _, _)
CallLoopMutant(calls, i, h, info) ==
    IF i > Len(calls) THEN [info |-> info, h |-> h, calls |-> <<>>]
    ELSE LET call == calls[i]
         IN  IF Len(call.name) # 2 \/ ~call.argsOk
             THEN CallLoopMutant(calls, i + 1, h, info)
             ELSE LET x == ExecuteTool(h, call.name[1])
                      info2 == IF x.err # ""
                               THEN PutInfo(info, "tool_error", call.id, x.err)
                               ELSE PutInfo(info, "tool_result", call.id,
                                            ContentOf(call.name[2]))
                      rest == IF x.err # ""
                              THEN [info |-> info2, h |-> x.h, calls |-> <<>>]
                              ELSE CallLoopMutant(calls, i + 1, x.h, info2)
                  IN  [info  |-> rest.info,
                       h     |-> rest.h,
                       calls |-> <<CallEntry(call.name[1], call.name[2], "", call.id, x)>>
                                    \o rest.calls]

RECURSIVE CallLoop(_, _, _, _)
\* the loop of processToolCalls from call i on
CallLoop(calls, i, h, info) ==
    IF i > Len(calls) THEN [info |-> info, h |-> h, calls |-> <<>>]
    ELSE LET call == calls[i]
         IN  IF Len(call.name) # 2 \/ ~call.argsOk
             THEN CallLoop(calls, i + 1, h, info)
             ELSE LET x == ExecuteTool(h, call.name[1])
                      info2 == IF x.err # ""
                               THEN PutInfo(info, "tool_error", call.id, x.err)
                               ELSE PutInfo(info, "tool_result", call.id,
                                            ContentOf(call.name[2]))
                      rest == CallLoop(calls, i + 1, x.h, info2)
                  IN  [info  |-> rest.info,
                       h     |-> rest.h,
                       calls |-> <<CallEntry(call.name[1], call.name[2], "", call.id, x)>>
                                    \o rest.calls]

\* MCPClient.parseToolCall: server and tool of a native call
WholeName(name) == IF Len(name) = 1 THEN name[1] ELSE "dotted"
parseToolCall(call) ==
    IF Len(call.name) = 2
    THEN [server |-> call.name[1], tool |-> call.name[2]]
    ELSE [server |-> "unknown", tool |-> WholeName(call.name)]

\* MCPClient.fillToolCallResult
fillToolCallResult(info, resultInfo) ==
    IF \E e \in info : e[1] = "tool_error" /\ e[2] = resultInfo.id /\ e[3] # ""
    THEN LET e == CHOOSE x \in info : x[1] = "tool_error" /\ x[2] = resultInfo.id
         IN  [resultInfo EXCEPT !.status = "error", !.error = e[3]]
    ELSE IF \E e \in info : e[1] = "tool_result" /\ e[2] = resultInfo.id
    THEN LET e == CHOOSE x \in info : x[1] = "tool_result" /\ x[2] = resultInfo.id
         IN  [resultInfo EXCEPT !.status = "success", !.result = e[3]]
    ELSE resultInfo

\* the record streamFunctionCallResults builds for a call before it is filled
BlankResult(call) ==
    [server |-> parseToolCall(call).server, tool |-> parseToolCall(call).tool,
     id |-> call.id, status |-> "", result |-> "", error |-> ""]

\* the events streamFunctionCallResults emits: tool_call then tool_result, per call
CallResultEvents(calls, info) ==
    [j \in 1..(2 * Len(calls)) |->
        LET call == calls[(j + 1) \div 2]
            filled == fillToolCallResult(info, BlankResult(call))
        IN  IF j % 2 = 1
            THEN ToolEvent("tool_call", "start", filled.server, filled.tool, call.id)
            ELSE ToolEvent("tool_result", "complete", filled.server, filled.tool,
                           IF filled.error # "" THEN filled.error ELSE filled.result)]

\* executeFunctionCallRound, with processToolCalls and
\* streamFunctionCallResults
ExecuteFunctionCallRound ==
    /\ UNCHANGED <<hostVars, streamVars>>
    /\ pc = "round"
    /\ currentGen.mode # TextMode
    /\ \E run \in {CallLoop(currentGen.toolCalls, 1, Host, currentGen.info.tool)} :
          LET calls == currentGen.toolCalls
              start == Event("processing_tool_calls", "start", "", "",
                             executionRound, Len(calls))
              done == Event("processing_tool_calls", "complete", "", "",
                            executionRound, 0)
              any == Len(calls) # 0
              streamed == any /\ opts.stream
              \* the batch holds the records as they were before being filled
              infos == [i \in 1..Len(calls) |-> BlankResult(calls[i])]
              g2 == [currentGen EXCEPT !.info.tool = run.info]
          IN  /\ connections' = run.h.conns
              /\ script' = run.h.script
              /\ callLog' = callLog \o
                    [i \in 1..Len(run.calls) |->
                        [round |-> executionRound] @@ run.calls[i]]
              /\ currentGen' = g2
              \* in round 1 state.currentGen and state.gen are the same object
              /\ gen' = IF currentGen.id = gen.id THEN g2 ELSE gen
              /\ hasExecuted' = any
              /\ events' = Notify(<<start, done>> \o
                                  (IF streamed THEN CallResultEvents(calls, run.info)
                                   ELSE <<>>))
              /\ capturedOutput' =
                    IF streamed
                    THEN Append(capturedOutput, ResultOpen(currentGen.resultTag))
                    ELSE capturedOutput
              /\ sink' = IF streamed THEN Append(sink, Batch(infos)) ELSE sink
              /\ pc' = "afterRound"
    /\ UNCHANGED <<opts, tools, listOk, textCatalog, textListOk, allTaskResults,
                   executionRound, llmLog, ret>>

(***************************************************************************)
(* Feedback: the LLM call after a round that executed tools                *)
(***************************************************************************)
\* the guidance message of buildTextModeIntermediateMessages /
\* buildFunctionCallIntermediateMessages
NextGuidance(o, round, mode) ==
    IF o.maxRounds - round > 0
    THEN (IF mode = TextMode THEN "nextRoundMsgTemplate" ELSE "fixed guidance")
    ELSE "none"

\* number of result messages the feedback prompt carries
ResultMessages(g, ledger) ==
    IF g.mode = TextMode THEN Len(ledger)
    ELSE Cardinality({i \in 1..Len(g.toolCalls) :
            \E e \in g.info.tool :
               /\ e[2] = g.toolCalls[i].id
               /\ \/ e[1] = "tool_error" /\ e[3] # ""
                  \/ e[1] = "tool_result"})

\* the "add tool results" loop of the TextMode builders: one user message
\* per ledger entry
TextResultMessages(ledger) ==
    [i \in 1..Len(ledger) |->
        Message("user",
                IF ledger[i].error # "" THEN "toolErrorMsgTemplate"
                ELSE "toolResultMsgTemplate",
                <<ledger[i]>>)]

\* MCPClient.buildTextModeIntermediateMessages
buildTextModeIntermediateMessages(o, ledger, round) ==
    <<Message("system", "systemPrompt", <<>>), Message("user", "prompt", <<>>)>>
        \o TextResultMessages(ledger)
        \o (IF o.maxRounds - round > 0
            THEN <<Message("user", "nextRoundMsgTemplate", <<>>)>> ELSE <<>>)

\* MCPClient.buildTextModeFinalResultMessages
buildTextModeFinalResultMessages(o, ledger, round) ==
    <<Message("system", "systemPrompt", <<>>), Message("user", "prompt", <<>>)>>
        \o TextResultMessages(ledger)
        \o <<Message("user", "finalResultMsgTemplate", <<>>)>>

\* the "add tool results" loop of the FunctionCallMode builders: one tool
\* message per call of the current generation that has a stored outcome
CallResultMessages(g) ==
    LET failed(c) == \E e \in g.info.tool :
                        e[1] = "tool_error" /\ e[2] = c.id /\ e[3] # ""
        stored(c) == \E e \in g.info.tool : e[1] = "tool_result" /\ e[2] = c.id
        told == SelectSeq(g.toolCalls, LAMBDA c : failed(c) \/ stored(c))
    IN  [i \in 1..Len(told) |->
            Message("tool", IF failed(told[i]) THEN "Error" ELSE "result",
                    <<told[i].id>>)]

\* MCPClient.buildFunctionCallIntermediateMessages
buildFunctionCallIntermediateMessages(o, g, round) ==
    <<Message("system", "functionCallSystemPrompt", <<>>),
      Message("user", "userQuestionTemplate", <<>>),
      Message("assistant", "toolCalls", <<>>)>>
        \o CallResultMessages(g)
        \o (IF o.maxRounds - round > 0
            THEN <<Message("user", "fixed guidance", <<>>)>> ELSE <<>>)

\* MCPClient.buildFunctionCallFinalResultMessages
buildFunctionCallFinalResultMessages(o, g, round) ==
    <<Message("system", "functionCallSystemPrompt", <<>>),
      Message("user", "userQuestionTemplate", <<>>),
      Message("assistant", "toolCalls", <<>>)>>
        \o CallResultMessages(g)
        \o <<Message("user", "finalResultMsgTemplate", <<>>)>>

\* MCPClient.buildIntermediateMessages
buildIntermediateMessages(o, g, ledger, round) ==
    IF g.mode = TextMode THEN buildTextModeIntermediateMessages(o, ledger, round)
    ELSE buildFunctionCallIntermediateMessages(o, g, round)

\* MCPClient.buildFinalResultMessages
buildFinalResultMessages(o, g, ledger, round) ==
    IF g.mode = TextMode THEN buildTextModeFinalResultMessages(o, ledger, round)
    ELSE buildFunctionCallFinalResultMessages(o, g, round)

\* originalOptions carry the WithTools option in TextMode only
FeedbackTools(o, cat) == IF o.mode = TextMode THEN cat ELSE {}

\* nextGen with the MCP fields copied from state.gen
Tagged(g, first) ==
    [g EXCEPT !.mode = first.mode, !.taskTag = first.taskTag,
              !.resultTag = first.resultTag]

\* what the stream wrapper of createIntermediateOptions appends to
\* capturedOutput during an LLM call
CapturedChunks(o, content) == IF o.stream THEN content ELSE <<>>

\* getFinalResult: capturedOutput.WriteString(nextGen.Content)
FinalWrite(o, content) == content

\* the catalog text a TextMode feedback prompt is built with
TextCatalogStep ==
    IF currentGen.mode = TextMode
    THEN LET txt == formatMCPToolsAsText(Host, opts.disabled)
         IN  /\ textCatalog' = txt.tools
             /\ textListOk' = txt.ok
             /\ connections' = txt.h.conns
             /\ script' = txt.h.script
    ELSE UNCHANGED <<textCatalog, textListOk, connections, script>>

\* executeToolsLoop: the round executed nothing, the loop ends
BreakLoop ==
    /\ UNCHANGED <<hostVars, streamVars>>
    /\ pc = "afterRound"
    /\ ~hasExecuted
    /\ pc' = "finish"
    /\ UNCHANGED <<opts, connections, script, tools, listOk, textCatalog, textListOk, gen,
                   currentGen, allTaskResults, executionRound, capturedOutput,
                   hasExecuted, llmLog, callLog, sink, events, ret>>

\* prepareNextRound: the budget is not used up, ask the LLM again
PrepareNextRound ==
    /\ UNCHANGED <<hostVars, streamVars>>
    /\ pc = "afterRound"
    /\ hasExecuted
    /\ executionRound < maxRoundsOf(opts)
    /\ \E reply \in CoreReplies(opts.mode) \cup {"fail"} :
          LET start == Event("intermediate_generation", "start", "", "", executionRound, 0)
              stop  == Event("intermediate_generation",
                             IF reply = "fail" THEN "error" ELSE "complete",
                             "", "", executionRound, 0)
              nextGen == Tagged(LLMGeneration(Len(llmLog) + 1, reply), gen)
          IN  /\ TextCatalogStep
              /\ llmLog' = Append(llmLog,
                     LLMEntry("intermediate",
                              NextGuidance(opts, executionRound, currentGen.mode),
                              reply, ResultMessages(currentGen, allTaskResults),
                              FeedbackTools(opts, tools),
                              buildIntermediateMessages(opts, currentGen, allTaskResults,
                                                        executionRound)))
              /\ events' = Notify(<<start, stop>>)
              /\ IF reply = "fail"
                 THEN /\ pc' = "done"
                      /\ ret' = [status |-> "error", gen |-> NoGen]
                      /\ UNCHANGED <<currentGen, capturedOutput, sink>>
                 ELSE /\ pc' = "loop"
                      /\ currentGen' = nextGen
                      /\ capturedOutput' = capturedOutput
                                             \o CapturedChunks(opts, nextGen.content)
                      /\ sink' = IF opts.stream THEN sink \o Deltas(nextGen.content)
                                 ELSE sink
                      /\ ret' = ret
    /\ UNCHANGED <<opts, tools, listOk, gen, allTaskResults, executionRound,
                   hasExecuted, callLog>>

GetFinalResultMutant ==
    /\ UNCHANGED <<hostVars, streamVars>>
    /\ pc = "afterRound"
    /\ hasExecuted
    /\ executionRound >= maxRoundsOf(opts)
    /\ \E reply \in CoreReplies(opts.mode) \cup {"fail"} :
          LET start == Event("intermediate_generation", "start", "", "", executionRound, 0)
              stop  == Event("intermediate_generation",
                             "complete",
                             "", "", executionRound, 0)
              nextGen == Tagged(LLMGeneration(Len(llmLog) + 1, reply), gen)
          IN  /\ TextCatalogStep
              /\ llmLog' = Append(llmLog,
                     LLMEntry("final", "finalResultMsgTemplate", reply,
                              ResultMessages(currentGen, allTaskResults),
                              FeedbackTools(opts, tools),
                              buildFinalResultMessages(opts, currentGen, allTaskResults,
                                                       executionRound)))
              /\ events' = Notify(<<start, stop>>)
              /\ IF reply = "fail"
                 THEN /\ pc' = "done"
                      /\ ret' = [status |-> "error", gen |-> NoGen]
                      /\ UNCHANGED <<currentGen, capturedOutput, sink>>
                 ELSE /\ pc' = "finish"
                      /\ currentGen' = nextGen
                      /\ capturedOutput' = capturedOutput
                                             \o CapturedChunks(opts, nextGen.content)
                                             \o FinalWrite(opts, nextGen.content)
                      /\ sink' = IF opts.stream THEN sink \o Deltas(nextGen.content)
                                 ELSE sink
                      /\ ret' = ret
    /\ UNCHANGED <<opts, tools, listOk, gen, allTaskResults, executionRound,
                   hasExecuted, callLog>>

\* getFinalResult: the budget is used up, ask the LLM for the final answer
GetFinalResult ==
    /\ UNCHANGED <<hostVars, streamVars>>
    /\ pc = "afterRound"
    /\ hasExecuted
    /\ executionRound >= maxRoundsOf(opts)
    /\ \E reply \in CoreReplies(opts.mode) \cup {"fail"} :
          LET start == Event("intermediate_generation", "start", "", "", executionRound, 0)
              stop  == Event("intermediate_generation",
                             IF reply = "fail" THEN "error" ELSE "complete",
                             "", "", executionRound, 0)
              nextGen == Tagged(LLMGeneration(Len(llmLog) + 1, reply), gen)
          IN  /\ TextCatalogStep
              /\ llmLog' = Append(llmLog,
                     LLMEntry("final", "finalResultMsgTemplate", reply,
                              ResultMessages(currentGen, allTaskResults),
                              FeedbackTools(opts, tools),
                              buildFinalResultMessages(opts, currentGen, allTaskResults,
                                                       executionRound)))
              /\ events' = Notify(<<start, stop>>)
              /\ IF reply = "fail"
                 THEN /\ pc' = "done"
                      /\ ret' = [status |-> "error", gen |-> NoGen]
                      /\ UNCHANGED <<currentGen, capturedOutput, sink>>
                 ELSE /\ pc' = "finish"
                      /\ currentGen' = nextGen
                      /\ capturedOutput' = capturedOutput
                                             \o CapturedChunks(opts, nextGen.content)
                                             \o FinalWrite(opts, nextGen.content)
                      /\ sink' = IF opts.stream THEN sink \o Deltas(nextGen.content)
                                 ELSE sink
                      /\ ret' = ret
    /\ UNCHANGED <<opts, tools, listOk, gen, allTaskResults, executionRound,
                   hasExecuted, callLog>>

(***************************************************************************)
(* ExecuteAndFeedback after the loop: finalGen, mergeGenerationInfo,        *)
(* notifyProcessComplete                                                   *)
(***************************************************************************)
mergeGenerationInfoMutant(info, ledger, round, first) ==
    [info EXCEPT !.hasTaskResults = Len(ledger) > 0, !.taskResults = ledger,
                 !.hasRounds = Len(ledger) > 0, !.rounds = round + 1]

\* MCPClient.mergeGenerationInfo
mergeGenerationInfo(info, ledger, round, first) ==
    IF Len(ledger) > 0
    THEN [info EXCEPT !.hasTaskResults = TRUE, !.taskResults = ledger,
                      !.hasRounds = TRUE, !.rounds = round]
    ELSE [info EXCEPT !.tool = info.tool \cup
                         {e \in first.info.tool : e[1] \in {"tool_result", "tool_error"}}]

Finish ==
    /\ UNCHANGED <<hostVars, streamVars>>
    /\ pc = "finish"
    /\ LET finalGen == [id |-> 0, content |-> <<>>, toolCalls |-> <<>>,
                        info |-> EmptyInfo, mode |-> gen.mode,
                        taskTag |-> gen.taskTag, resultTag |-> gen.resultTag]
           merged == [finalGen EXCEPT !.info =
                         mergeGenerationInfo(finalGen.info, allTaskResults,
                                             executionRound, gen)]
           hasResults == Len(allTaskResults) > 0 \/ Len(gen.toolCalls) > 0
       IN  /\ ret' = [status |-> "ok", gen |-> merged]
           /\ events' = Notify(<<[Event("process_complete", "complete", "", "",
                                        executionRound, 0)
                                    EXCEPT !.data = IF hasResults THEN "has_results"
                                                    ELSE "no_results"]>>)
    /\ pc' = "done"
    /\ UNCHANGED <<opts, connections, script, tools, listOk, textCatalog, textListOk, gen,
                   currentGen, allTaskResults, executionRound, capturedOutput,
                   hasExecuted, llmLog, callLog, sink>>

Next ==
    \/ RejectBlankPrompt
    \/ GenerateCall
    \/ ReturnFirst
    \/ ExecuteAndFeedback
    \/ RoundStart
    \/ ExecuteTextModeRound
    \/ ExecuteFunctionCallRound
    \/ BreakLoop
    \/ PrepareNextRound
    \/ GetFinalResult
    \/ Finish

Spec == Init /\ [][Next]_vars

\* the Generate call goes on whenever the call it waits for has returned
LiveSpec == Spec /\ WF_vars(Next)

(***************************************************************************)
(* Properties                                                              *)
(***************************************************************************)
\* the Generate call returned a Generation
Returned == pc = "done" /\ ret.status = "ok"
\* ... and that Generation was built by ExecuteAndFeedback after the loop
Looped == Returned /\ ret.gen.id = 0
\* the Host.ExecuteTool calls that issued a callTool RPC
RpcCalls == SelectSeq(callLog, LAMBDA c : c.rpc)
\* the tasks a reply holds for the run's parser
ReplyTasks(reply) ==
    IF reply = "fail" THEN <<>>
    ELSE ParsedTasks(ReplyTable[reply].content, opts.taskTag).tasks
ReplyParses(reply) ==
    reply # "fail" /\ ParsedTasks(ReplyTable[reply].content, opts.taskTag).err = ""

C2_CrossRoundDedup ==
    \A i, j \in 1..Len(callLog) :
        (callLog[i].text # "" /\ callLog[i].round < callLog[j].round)
            => callLog[i].text # callLog[j].text

\* round 2 examined a generation repeating round 1's task next to a new
\* one: the repeated one was skipped, the new one dispatched
C2_Witness ==
    /\ pc = "afterRound" /\ executionRound = 2 /\ opts.mode = TextMode
    /\ \E t \in Range(ParsedTasks(currentGen.content, opts.taskTag).tasks) :
          \E i \in 1..Len(callLog) : callLog[i].round = 1 /\ callLog[i].text = t.text
    /\ \E i \in 1..Len(callLog) : callLog[i].round = 2

\* the texts dispatched in rounds before the current one
EarlierTexts == {callLog[i].text : i \in {j \in 1..Len(callLog) :
                                            callLog[j].round < executionRound}}
\* the round just run examined a generation all of whose tasks (if any)
\* had been dispatched in an earlier round
AllSeen ==
    /\ pc = "afterRound" /\ opts.mode = TextMode
    /\ \A t \in Range(ParsedTasks(currentGen.content, opts.taskTag).tasks) :
          t.text \in EarlierTexts
\* no Host.ExecuteTool call was made in the round just run
NoCallThisRound == \A i \in 1..Len(callLog) : callLog[i].round # executionRound
\* the first two replies of the run hold the same single task
SameTaskTwice ==
    /\ Len(llmLog) >= 2
    /\ Len(ReplyTasks(llmLog[1].reply)) = 1
    /\ ReplyTasks(llmLog[2].reply) = ReplyTasks(llmLog[1].reply)

OneNewTaskEach ==
    \A i \in 1..Len(llmLog) :
        /\ ReplyParses(llmLog[i].reply)
        /\ Len(ReplyTasks(llmLog[i].reply)) = 1
        /\ \A j \in 1..(i - 1) :
              ReplyTasks(llmLog[j].reply)[1].text # ReplyTasks(llmLog[i].reply)[1].text

\* C4: in TextMode with autoExecute = true and budget K >= 1, when every
\* generation holds exactly one new task (and every dispatch reaches its
\* server), the run issues exactly K callTool, makes K + 1 LLM calls of which
\* the last is the terminal one guided by finalResultMsgTemplate and the
\* feedback calls before it are guided by nextRoundMsgTemplate, dispatches
\* nothing from the terminal generation, and returns mcp_execution_rounds = K.
C4_RoundCap ==
    (/\ Returned /\ opts.auto /\ opts.mode = TextMode /\ opts.maxRounds >= 1
     /\ OneNewTaskEach
     /\ \A i \in 1..Len(callLog) : callLog[i].rpc)
        => /\ Len(RpcCalls) = opts.maxRounds
           /\ Len(llmLog) = opts.maxRounds + 1
           /\ llmLog[Len(llmLog)].kind = "final"
           /\ llmLog[Len(llmLog)].guidance = "finalResultMsgTemplate"
           /\ \A i \in 2..(Len(llmLog) - 1) :
                 /\ llmLog[i].kind = "intermediate"
                 /\ llmLog[i].guidance = "nextRoundMsgTemplate"
           /\ \A i \in 1..Len(callLog) :
                 callLog[i].text # ReplyTasks(llmLog[Len(llmLog)].reply)[1].text
           /\ ret.gen.info.hasRounds /\ ret.gen.info.rounds = opts.maxRounds

\* a run with budget 2 in which three generations each brought a new task
C4_Witness ==
    /\ Returned /\ opts.auto /\ opts.mode = TextMode /\ opts.maxRounds = 2
    /\ OneNewTaskEach
    /\ Len(llmLog) = 3
    /\ Len(RpcCalls) = 2 /\ Len(callLog) = 2

\* C5: in TextMode with autoExecute = true and K >= 2, when the first reply
\* holds exactly one well-formed task and the second reply holds none,
\* exactly one callTool is issued, exactly two LLM calls are made, and the
\* returned mcp_execution_rounds is 1.
C5_SingleTaskRun ==
    (/\ Returned /\ opts.auto /\ opts.mode = TextMode /\ opts.maxRounds >= 2
     /\ Len(llmLog) >= 2
     /\ ReplyParses(llmLog[1].reply) /\ Len(ReplyTasks(llmLog[1].reply)) = 1
     /\ ReplyParses(llmLog[2].reply) /\ Len(ReplyTasks(llmLog[2].reply)) = 0)
        => /\ Len(callLog) = 1
           /\ Len(llmLog) = 2
           /\ ret.gen.info.hasRounds /\ ret.gen.info.rounds = 1

\* the bytes the caller's streaming sink received, in order (a batch of
\* tool results carries no chunk)
SinkBytes ==
    LET ds == SelectSeq(sink, LAMBDA d : d.k = "delta")
    IN  [i \in 1..Len(ds) |-> ds[i].tok]

\* C6: for every Generate call with autoExecute = true and a streaming sink
\* that ran the loop, the returned Generation's content equals the
\* captured-output buffer, and the buffer equals the concatenation, in order,
\* of what the sink received.
C6_RoundTrip ==
    (Looped /\ opts.auto /\ opts.stream)
        => /\ ret.gen.content = capturedOutput
           /\ capturedOutput = SinkBytes

\* C7: no callTool is ever issued for a tool whose qualified name is in
\* disabledTools, in either work mode.
C7_DisabledNeverCalled ==
    \A i \in 1..Len(callLog) :
        callLog[i].rpc => Qualified(callLog[i].server, callLog[i].tool) \notin opts.disabled

\* the tools of the servers in ok that are not disabled
Enabled(ok) ==
    {q \in AllQualified :
        q[1] \in ok /\ q[2] \in ServerTools[q[1]] /\ q \notin opts.disabled}

\* C8: the function descriptors handed to the LLM, and the text rendering of
\* the catalog, hold exactly the tools of the sessions whose listTools
\* succeeded that are not in disabledTools; a session whose listTools fails
\* contributes nothing and the LLM call is made all the same by every call
\* that passed the prompt check on entry.
C8_CatalogFilter ==
    /\ pc # "idle" /\ ~BlankPrompt(opts) => Len(llmLog) >= 1
    /\ Len(llmLog) >= 1 => /\ tools = Enabled(listOk)
                           /\ llmLog[1].tools = tools
    /\ textCatalog = Enabled(textListOk)
    /\ \A i \in 2..Len(llmLog) :
          opts.mode = TextMode => llmLog[i].tools \cap opts.disabled = {}

\* two sessions, one tool disabled, the listing of srv2 failed
C8_Witness ==
    /\ Len(llmLog) >= 2
    /\ "srv2" \in DOMAIN connections
    /\ opts.disabled = Disabled
    /\ listOk = {"srv1"}
    /\ tools = {Qualified("srv1", "echo")}
    /\ textCatalog # {}

\* C9: with autoExecute = false Generate makes exactly one LLM call, issues
\* no callTool, emits no state-notify event and returns the first
\* generation (in FunctionCallMode with the echo of its tool calls appended
\* to its content), whatever tasks or tool calls it holds.
C9_NoAutoExecute ==
    ~opts.auto
        => /\ Len(llmLog) <= 1
           /\ callLog = <<>>
           /\ events = <<>>
           /\ Returned =>
                 /\ Len(llmLog) = 1
                 /\ ret.gen.id = gen.id /\ gen.id = 1
                 /\ ret.gen.toolCalls = ReplyTable[llmLog[1].reply].toolCalls
                 /\ ret.gen.info = gen.info
                 /\ SubSeq(ret.gen.content, 1, Len(gen.content))
                       = ReplyTable[llmLog[1].reply].content
                 /\ opts.mode = TextMode => ret.gen = gen

\* a first generation holding a tool request is returned with a notifier set
C9_Witness ==
    /\ Returned /\ ~opts.auto /\ opts.notify
    /\ hasToolCalls(gen)
    /\ ret.gen.id = 1

\* the first reply holds nothing the parser would extract
NoRequest ==
    /\ Len(llmLog) >= 1
    /\ ReplyParses(llmLog[1].reply)
    /\ ReplyTasks(llmLog[1].reply) = <<>>
    /\ ReplyTable[llmLog[1].reply].toolCalls = <<>>

\* C10: with autoExecute = true, when the initial generation holds no task
\* after the last </think> and no native tool call, Generate returns that
\* same Generation unchanged, issues no callTool and makes no further LLM
\* call.
C10_EarlyReturn ==
    (Returned /\ opts.auto /\ NoRequest)
        => /\ ret.gen = gen
           /\ callLog = <<>>
           /\ Len(llmLog) = 1

\* C11: in TextMode a Generate or GenerateContent call whose system prompt
\* template is empty or only whitespace returns an error before any
\* listTools, LLM call or callTool; in FunctionCallMode a blank template
\* does not make the call fail.
C11_BlankPrompt ==
    /\ (opts.mode = TextMode /\ opts.systemPrompt \in {"", " "})
          => /\ pc \in {"idle", "done"}
             /\ pc = "done" => ret.status = "error"
             /\ listOk = {} /\ tools = {} /\ script = AllHealthy
             /\ llmLog = <<>> /\ callLog = <<>>
    /\ (opts.mode = FunctionCallMode /\ opts.systemPrompt \in {"", " "})
          => /\ pc # "idle" => (Len(llmLog) >= 1 /\ listOk # {})
             /\ (pc = "done" /\ \A i \in 1..Len(llmLog) : llmLog[i].reply # "fail")
                   => ret.status = "ok"

\* a whitespace-only template has made GenerateContent fail in TextMode
C11_Witness ==
    /\ pc = "done" /\ ret.status = "error"
    /\ opts.mode = TextMode /\ opts.systemPrompt = " "
    /\ opts.entry = "GenerateContent"
    /\ llmLog = <<>>

\* the Host.ExecuteTool calls of the round just run, in order
RoundCalls == SelectSeq(callLog, LAMBDA c : c.round = executionRound)
\* the tasks of the current generation not dispatched in an earlier round
NewTasks ==
    SelectSeq(ParsedTasks(currentGen.content, opts.taskTag).tasks,
              LAMBDA t : t.text \notin EarlierTexts)
\* the native calls of the current generation that processToolCalls accepts
GoodCalls == SelectSeq(currentGen.toolCalls, LAMBDA c : Len(c.name) = 2 /\ c.argsOk)

\* C12: a failing Host.ExecuteTool never aborts the round.  In TextMode
\* every new task of the round is dispatched in parsed order and a failed
\* one is in the ledger with its error string and no result; in
\* FunctionCallMode every accepted call is dispatched in order and a failed
\* one is recorded as tool_error; the loop goes on to the feedback step, and
\* Generate fails only for a blank prompt, a failed LLM call or a parse error.
C12_ToolErrorContinues ==
    /\ (pc = "afterRound" /\ opts.mode = TextMode)
          => /\ Len(RoundCalls) = Len(NewTasks)
             /\ \A i \in 1..Len(RoundCalls) :
                   /\ RoundCalls[i].text = NewTasks[i].text
                   /\ RoundCalls[i].server = NewTasks[i].server
                   /\ RoundCalls[i].tool = NewTasks[i].tool
                   /\ RoundCalls[i].err # "" =>
                         LET r == allTaskResults[Len(allTaskResults) - Len(RoundCalls) + i]
                         IN  /\ r.task = NewTasks[i]
                             /\ r.error = RoundCalls[i].err
                             /\ r.result = ""
             /\ RoundCalls # <<>> => hasExecuted
    /\ (pc = "afterRound" /\ opts.mode = FunctionCallMode)
          => /\ Len(RoundCalls) = Len(GoodCalls)
             /\ \A i \in 1..Len(RoundCalls) :
                   /\ RoundCalls[i].id = GoodCalls[i].id
                   /\ RoundCalls[i].err # "" =>
                         <<"tool_error", RoundCalls[i].id, RoundCalls[i].err>>
                             \in currentGen.info.tool
             /\ RoundCalls # <<>> => hasExecuted
    /\ (pc = "done" /\ ret.status = "error")
          => \/ BlankPrompt(opts)
             \/ Len(llmLog) > 0 /\ llmLog[Len(llmLog)].reply = "fail"
             \/ /\ opts.mode = TextMode
                /\ ParsedTasks(currentGen.content, opts.taskTag).err # ""

\* a round whose first dispatch failed and whose second one was still made
C12_Witness ==
    /\ pc = "afterRound" /\ opts.mode = TextMode
    /\ Len(RoundCalls) = 2
    /\ RoundCalls[1].err # "" /\ RoundCalls[2].err = ""
    /\ Len(allTaskResults) = 2 /\ allTaskResults[1].error # ""
    /\ hasExecuted

\* the first LLM call answered with the given reply in an auto-executing
\* TextMode run that has ended
EndedAfter(reply) ==
    /\ pc = "done" /\ opts.auto /\ opts.mode = TextMode
    /\ Len(llmLog) >= 1 /\ llmLog[1].reply = reply
\* some Host.ExecuteTool call was made for that server and tool
Dispatched(server, tool) ==
    \E i \in 1..Len(callLog) : callLog[i].server = server /\ callLog[i].tool = tool

\* C13: a tag block whose body is not parsable JSON, or whose server or
\* tool is empty after trimming, yields no task and is skipped silently: the
\* well-formed blocks of the same content are still dispatched and neither
\* the round nor Generate fails because of it.
C13_MalformedSkipped ==
    /\ (EndedAfter("rBad") /\ Len(llmLog) = 1) => ret.status = "ok"
    /\ (EndedAfter("rBadMix") /\ llmLog[Len(llmLog)].reply # "fail")
          => (ret.status = "ok" /\ Dispatched("srv2", "time"))
    /\ (EndedAfter("rBlank") /\ llmLog[Len(llmLog)].reply # "fail")
          => (ret.status = "ok" /\ Dispatched("srv2", "time"))

\* C14: the parser accepts the MCP form {"server", "tool", "args"} as well
\* as the native form {"name": "server.tool", "arguments"}, splitting the
\* native name on its first '.', so a first reply holding an MCP-form
\* block for srv2.time leads to an ExecuteTool(srv2, time) call and a name
\* "srv1.ns.echo" to an ExecuteTool call on srv1.
C14_BothShapes ==
    /\ EndedAfter("rTime") => Dispatched("srv2", "time")
    /\ EndedAfter("rMcp") => Dispatched("srv2", "time")
    /\ EndedAfter("rDotted") => \E i \in 1..Len(callLog) : callLog[i].server = "srv1"

\* the events of the given type and stage received so far
EventsOf(type, stage) ==
    SelectSeq(events, LAMBDA e : e.type = type /\ e.stage = stage)
\* a feedback LLM call (intermediate or terminal) has failed
FeedbackFailed ==
    /\ Len(llmLog) >= 2
    /\ llmLog[Len(llmLog)].reply = "fail"

\* C15: when a feedback LLM call fails, exactly one intermediate_generation
\* event with stage error is emitted (to a registered notifier), it is the
\* last event, Generate returns the error and no Generation, no
\* process_complete event is emitted, and nothing more happens: no later
\* LLM call or callTool.
C15_FeedbackFailure ==
    /\ [](/\ \A i \in 1..(Len(llmLog) - 1) : llmLog[i].reply # "fail"
          /\ FeedbackFailed =>
                /\ pc = "done"
                /\ ret = [status |-> "error", gen |-> NoGen]
                /\ EventsOf("process_complete", "complete") = <<>>
                /\ opts.notify =>
                      /\ Len(EventsOf("intermediate_generation", "error")) = 1
                      /\ events[Len(events)].stage = "error"
          /\ ~FeedbackFailed => EventsOf("intermediate_generation", "error") = <<>>)
    /\ [][~FeedbackFailed]_vars

\* the terminal call of a run with a notifier has failed
C15_Witness ==
    /\ FeedbackFailed /\ opts.notify
    /\ llmLog[Len(llmLog)].kind = "final"
    /\ pc = "done" /\ ret.status = "error"

(***************************************************************************)
(* MCPHost under concurrent callers.  Every lock section of the source is  *)
(* one atomic step; the transport calls made outside the lock (client      *)
(* creation, Start, Initialize, Ping) are steps of their own.  A client is *)
(* the MCP client object with its transport; a built client is the one a   *)
(* ServerConnection was made for.  Of a client the model keeps: closes,    *)
(* the number of Close calls; rpcs, the number of CallTool requests sent   *)
(* on it; wrappers, the server ids of the global-handler wrappers attached *)
(* with OnNotification; heard, the server ids the global handler was       *)
(* called with for its notifications; pushed, whether it has pushed one;   *)
(* locked, the transport operations called on it inside a lock section.    *)
(***************************************************************************)
\* Host calls the first thread makes
MaxOps == 2

\* the second thread makes one call, concurrent with those of the first
Threads == {1, 2}
OpsOf(t) == IF t = 1 THEN MaxOps ELSE 1
HostIds == {"a", "b"}
SSEConnectionType == "SSE"
StdioConnectionType == "Stdio"
InProcessConnectionType == "InProcess"
ConnectionTypes == {SSEConnectionType, StdioConnectionType, InProcessConnectionType}

\* a client whose ServerConnection was built (Connected: true)
BuiltClient(id, type) ==
    [serverId |-> id, type |-> type, closes |-> 0, connected |-> TRUE,
     session |-> TRUE, failed |-> "", rpcs |-> 0, wrappers |-> {},
     heard |-> {}, pushed |-> FALSE, locked |-> {}]
HalfBuiltClientMutant(id, type, stage) ==
    [serverId |-> id, type |-> type, closes |-> 0, connected |-> FALSE,
     session |-> FALSE, failed |-> stage, rpcs |-> 0, wrappers |-> {},
     heard |-> {}, pushed |-> FALSE, locked |-> {}]

\* a client closed by its connect call after Start or Initialize failed
HalfBuiltClient(id, type, stage) ==
    [serverId |-> id, type |-> type, closes |-> 1, connected |-> FALSE,
     session |-> FALSE, failed |-> stage, rpcs |-> 0, wrappers |-> {},
     heard |-> {}, pushed |-> FALSE, locked |-> {}]

\* a thread between two Host calls
Idle(left, op, id, result, got) ==
    [pc |-> "idle", op |-> op, id |-> id, type |-> "", conn |-> 0,
     nested |-> FALSE, left |-> left, result |-> result, got |-> got,
     old |-> 0, discs |-> 0]

\* registries a Host can have been brought to by earlier successful connects
HostStarts ==
    { [registry |-> [i \in {} |-> 0], clients |-> <<>>],
      [registry |-> [i \in {"a"} |-> 1],
       clients  |-> <<BuiltClient("a", SSEConnectionType)>>],
      [registry |-> [i \in {"a", "b"} |-> IF i = "a" THEN 1 ELSE 2],
       clients  |-> <<BuiltClient("a", StdioConnectionType),
                      BuiltClient("b", SSEConnectionType)>>] }

HostInit ==
    /\ \E st \in HostStarts :
          /\ registry = st.registry
          /\ clients = st.clients
    /\ thread = [t \in Threads |-> Idle(OpsOf(t), "", "", "", 0)]
    /\ pc = "idle"
    /\ opts = [mode |-> FunctionCallMode, auto |-> FALSE, maxRounds |-> 1,
               taskTag |-> MCP_DEFAULT_TASK_TAG, resultTag |-> MCP_DEFAULT_RESULT_TAG,
               stream |-> FALSE, notify |-> FALSE, callback |-> "nil", disabled |-> {},
               entry |-> "Generate", systemPrompt |-> "sys"]
    /\ connections = BothServers
    /\ script = AllHealthy
    /\ tools = {}
    /\ listOk = {}
    /\ textCatalog = {}
    /\ textListOk = {}
    /\ gen = NoGen
    /\ currentGen = NoGen
    /\ allTaskResults = <<>>
    /\ executionRound = 0
    /\ capturedOutput = <<>>
    /\ hasExecuted = FALSE
    /\ llmLog = <<>>
    /\ callLog = <<>>
    /\ sink = <<>>
    /\ events = <<>>
    /\ ret = [status |-> "none", gen |-> NoGen]
    /\ stream = <<>>

\* the call of thread t returns; the EnsureConnection of an ExecuteTool
\* returns into it, which goes on to CallTool when there is no error
Return(t, result, got) ==
    IF thread[t].op = "execute" /\ thread[t].pc # "callTool" /\ result = "ok"
    THEN thread' = [thread EXCEPT ![t].pc = "callTool", ![t].conn = got]
    ELSE thread' = [thread EXCEPT ![t] =
                       Idle(thread[t].left, thread[t].op, thread[t].id, result, got)]
ConnectFailsMutant(t, result) ==
    Return(t, result, 0)

\* the connect of thread t fails: as its own error, or as the reconnect
\* error of the EnsureConnection it runs in
ConnectFails(t, result) ==
    Return(t, IF thread[t].nested THEN "can not reconnect" ELSE result, 0)

\* a caller starts ConnectSSE/ConnectStdio/ConnectInProcess,
\* DisconnectServer, DisconnectAll or EnsureConnection
Invoke(t) ==
    /\ thread[t].pc = "idle"
    /\ thread[t].left > 0
    /\ \E op \in {"connect", "disconnect", "disconnectAll", "ensure"},
          id \in HostIds, type \in ConnectionTypes :
          /\ op # "connect" => type = SSEConnectionType
          /\ op = "disconnectAll" => id = "a"
          /\ thread' = [thread EXCEPT ![t] =
                [pc |-> CASE op = "connect" -> "check"
                          [] op = "disconnect" -> "disconnect"
                          [] op = "disconnectAll" -> "disconnectAll"
                          [] OTHER -> "lookup",
                 op |-> op, id |-> id,
                 type |-> IF op = "connect" THEN type ELSE "",
                 conn |-> 0, nested |-> FALSE, left |-> thread[t].left - 1,
                 result |-> "", got |-> 0, old |-> 0, discs |-> 0]]
    /\ UNCHANGED <<registry, clients>>
    /\ UNCHANGED <<genVars, streamVars>>

ConnectLookupMutant(t) ==
    /\ thread[t].pc = "check"
    /\ thread' = [thread EXCEPT ![t].pc = "build"]
    /\ UNCHANGED <<registry, clients>>
    /\ UNCHANGED <<genVars, streamVars>>

\* Connect*: the lookup under the read lock
ConnectLookup(t) ==
    /\ thread[t].pc = "check"
    /\ IF thread[t].id \in DOMAIN registry
       THEN ConnectFails(t, "already exists")
       ELSE thread' = [thread EXCEPT ![t].pc = "build"]
    /\ UNCHANGED <<registry, clients>>
    /\ UNCHANGED <<genVars, streamVars>>

\* the outcomes of creating, starting and initializing a client;
\* ConnectStdio has no Start call
BuildOutcomes(type) ==
    IF type = StdioConnectionType THEN {"create failed", "init failed", "ok"}
    ELSE {"create failed", "start failed", "init failed", "ok"}

\* Connect*: New...Client, Start, Initialize and the ServerConnection
ConnectBuild(t) ==
    /\ thread[t].pc = "build"
    /\ \E outcome \in BuildOutcomes(thread[t].type) :
          CASE outcome = "create failed" ->
                 /\ ConnectFails(t, outcome)
                 /\ UNCHANGED clients
            [] outcome \in {"start failed", "init failed"} ->
                 /\ clients' = Append(clients,
                       HalfBuiltClient(thread[t].id, thread[t].type, outcome))
                 /\ ConnectFails(t, outcome)
            [] OTHER ->
                 /\ clients' = Append(clients, BuiltClient(thread[t].id, thread[t].type))
                 /\ thread' = [thread EXCEPT ![t].pc = "register",
                                             ![t].conn = Len(clients) + 1]
    /\ UNCHANGED registry
    /\ UNCHANGED <<genVars, streamVars>>

\* h.connections[serverID] = conn
Registered(reg, id, c) == [i \in DOMAIN reg \cup {id} |-> IF i = id THEN c ELSE reg[i]]

\* Connect*: the insert under the write lock
ConnectRegister(t) ==
    /\ thread[t].pc = "register"
    /\ registry' = Registered(registry, thread[t].id, thread[t].conn)
    /\ Return(t, "ok", thread[t].conn)
    /\ UNCHANGED clients
    /\ UNCHANGED <<genVars, streamVars>>

ClosedMutant(cls, c) ==
    [cls EXCEPT ![c].closes = @ + 1, ![c].locked = @ \cup {"close"}]

\* conn.Client.Close() and conn.Connected = false, with h.mutex held
Closed(cls, c) ==
    [cls EXCEPT ![c].closes = @ + 1, ![c].connected = FALSE,
                ![c].locked = @ \cup {"close"}]

DisconnectedMutant(reg, cls, id) ==
    IF id \notin DOMAIN reg THEN [registry |-> reg, clients |-> cls]
    ELSE [registry |-> reg, clients |-> Closed(cls, reg[id])]

\* the body of DisconnectServer, under the write lock
Disconnected(reg, cls, id) ==
    IF id \notin DOMAIN reg THEN [registry |-> reg, clients |-> cls]
    ELSE [registry |-> Remove(reg, id), clients |-> Closed(cls, reg[id])]

\* DisconnectServer called by a caller
DisconnectServer(t) ==
    /\ thread[t].pc = "disconnect"
    /\ LET after == Disconnected(registry, clients, thread[t].id)
       IN  /\ registry' = after.registry
           /\ clients' = after.clients
           /\ IF thread[t].id \notin DOMAIN registry
              THEN Return(t, "no connection found", 0)
              ELSE \E closeErr \in BOOLEAN :
                      Return(t, IF closeErr THEN "close error" ELSE "ok", 0)
    /\ UNCHANGED <<genVars, streamVars>>

\* DisconnectAll
DisconnectAll(t) ==
    /\ thread[t].pc = "disconnectAll"
    /\ clients' = [c \in DOMAIN clients |->
                      IF \E i \in DOMAIN registry : registry[i] = c
                      THEN Closed(clients, c)[c] ELSE clients[c]]
    /\ registry' = [i \in {} |-> 0]
    /\ Return(t, "ok", 0)
    /\ UNCHANGED <<genVars, streamVars>>

\* EnsureConnection: the lookup under the read lock
EnsureLookup(t) ==
    /\ thread[t].pc = "lookup"
    /\ IF thread[t].id \notin DOMAIN registry
       THEN Return(t, "no connection found", 0)
       ELSE thread' = [thread EXCEPT ![t].pc = "ping",
                                     ![t].conn = registry[thread[t].id]]
    /\ UNCHANGED <<registry, clients>>
    /\ UNCHANGED <<genVars, streamVars>>

\* EnsureConnection: conn.Client.Ping; a closed client cannot answer
EnsurePing(t) ==
    /\ thread[t].pc = "ping"
    /\ \E alive \in BOOLEAN :
          /\ alive => clients[thread[t].conn].closes = 0
          /\ IF alive
             THEN Return(t, "ok", thread[t].conn)
             ELSE thread' = [thread EXCEPT ![t].pc = "ensureDisconnect"]
    /\ UNCHANGED <<registry, clients>>
    /\ UNCHANGED <<genVars, streamVars>>

\* EnsureConnection after a failed ping: h.DisconnectServer(serverID), then
\* ConnectSSE for an SSE connection, the old conn for every other type
EnsureDisconnect(t) ==
    /\ thread[t].pc = "ensureDisconnect"
    /\ LET after == Disconnected(registry, clients, thread[t].id)
           conn  == clients[thread[t].conn]
       IN  /\ registry' = after.registry
           /\ clients' = after.clients
           /\ IF conn.type = SSEConnectionType
              THEN thread' = [thread EXCEPT ![t].pc = "check",
                                            ![t].id = conn.serverId,
                                            ![t].type = SSEConnectionType,
                                            ![t].nested = TRUE,
                                            ![t].old = thread[t].conn,
                                            ![t].discs = @ + 1]
              ELSE IF thread[t].op = "execute"
              THEN thread' = [thread EXCEPT ![t].pc = "callTool",
                                            ![t].old = thread[t].conn,
                                            ![t].discs = @ + 1]
              ELSE Return(t, "ok", thread[t].conn)
    /\ UNCHANGED <<genVars, streamVars>>

HostNext ==
    \E t \in Threads :
        \/ Invoke(t)
        \/ ConnectLookup(t)
        \/ ConnectBuild(t)
        \/ ConnectRegister(t)
        \/ DisconnectServer(t)
        \/ DisconnectAll(t)
        \/ EnsureLookup(t)
        \/ EnsurePing(t)
        \/ EnsureDisconnect(t)

HostSpec == HostInit /\ [][HostNext]_vars

\* the client indices the registry holds
RegisteredClients == {registry[i] : i \in DOMAIN registry}
\* thread t takes a step from the given position
Steps(t, at) == thread[t].pc = at /\ thread'[t] # thread[t]
\* no Host operation is in progress
Quiescent == \A t \in Threads : thread[t].pc = "idle"

\* C16: a connect call whose serverId is registered when it looks the id up
\* fails, creates no client and leaves the registry and the registered
\* session as they are.
C16_DuplicateId ==
    [][\A t \in Threads :
          (Steps(t, "check") /\ thread[t].id \in DOMAIN registry)
             => /\ thread'[t].pc = "idle"
                /\ thread'[t].result =
                      (IF thread[t].nested THEN "can not reconnect" ELSE "already exists")
                /\ thread'[t].got = 0
                /\ clients' = clients
                /\ registry' = registry]_vars

\* a connect has failed on an id whose session is still registered and live
C16_Witness ==
    \E t \in Threads :
        /\ thread[t].pc = "idle" /\ thread[t].op = "connect"
        /\ thread[t].result = "already exists"
        /\ thread[t].id \in DOMAIN registry
        /\ clients[registry[thread[t].id]].connected
        /\ clients[registry[thread[t].id]].closes = 0

\* C17: whenever no Host operation is in progress, every client the Host
\* has created is the one registered under its serverId or has been closed,
\* for every interleaving of connects, disconnects and ensureConnection.
C17_NoTransportLeak ==
    Quiescent =>
        \A c \in DOMAIN clients :
            \/ clients[c].closes >= 1
            \/ /\ clients[c].serverId \in DOMAIN registry
               /\ registry[clients[c].serverId] = c

\* C18: every session in the registry is connected and stored under its own
\* serverId, in every state (every lock section is one step).
C18_RegistryInvariant ==
    \A i \in DOMAIN registry :
        /\ registry[i] \in DOMAIN clients
        /\ clients[registry[i]].session
        /\ clients[registry[i]].connected
        /\ clients[registry[i]].closes = 0
        /\ clients[registry[i]].serverId = i

\* a session was disconnected and another one registered in its place
C18_Witness ==
    /\ "a" \in DOMAIN registry
    /\ registry["a"] > 1
    /\ \E c \in DOMAIN clients :
          /\ clients[c].serverId = "a" /\ clients[c].session
          /\ ~clients[c].connected /\ c \notin RegisteredClients

\* C19: when Start or Initialize fails in a connect, the half-built client
\* is closed exactly once, the call returns an error, and the registry is
\* unchanged: the client is never registered.
C19_ConnectErrorPaths ==
    /\ [](\A c \in DOMAIN clients :
             clients[c].failed # ""
                => /\ clients[c].closes = 1
                   /\ c \notin RegisteredClients)
    /\ [][\A t \in Threads :
             (Steps(t, "build") /\ thread'[t].pc = "idle")
                => /\ thread'[t].result \in
                         (IF thread[t].nested THEN {"can not reconnect"}
                          ELSE {"create failed", "start failed", "init failed"})
                   /\ thread'[t].got = 0
                   /\ registry' = registry
                   /\ Len(clients') <= Len(clients) + 1
                   /\ \A c \in DOMAIN clients : clients'[c] = clients[c]
                   /\ Len(clients') = Len(clients) + 1
                         => clients'[Len(clients')].failed
                               \in {"start failed", "init failed"}]_vars

\* a connect has failed in Start and one in Initialize
C19_Witness ==
    /\ \E c \in DOMAIN clients : clients[c].failed = "start failed"
    /\ \E c \in DOMAIN clients : clients[c].failed = "init failed"
    /\ \E t \in Threads : thread[t].pc = "idle" /\ thread[t].result = "init failed"

\* C20: DisconnectServer of a registered id closes that session's client,
\* marks it disconnected and removes exactly that entry, whether or not
\* Close reports an error; of an unknown id it fails and changes nothing.
\* A connect that registers a new id adds exactly that entry, so connect
\* followed by disconnect gives back the key set.
C20_DisconnectExact ==
    [][\A t \in Threads :
          /\ Steps(t, "disconnect") =>
                LET id == thread[t].id
                IN  IF id \in DOMAIN registry
                    THEN /\ DOMAIN registry' = DOMAIN registry \ {id}
                         /\ \A i \in DOMAIN registry' : registry'[i] = registry[i]
                         /\ clients'[registry[id]].closes = clients[registry[id]].closes + 1
                         /\ ~clients'[registry[id]].connected
                         /\ \A c \in DOMAIN clients \ {registry[id]} :
                               clients'[c] = clients[c]
                         /\ thread'[t].result \in {"ok", "close error"}
                    ELSE /\ registry' = registry
                         /\ clients' = clients
                         /\ thread'[t].result = "no connection found"
          /\ (Steps(t, "register") /\ thread[t].id \notin DOMAIN registry) =>
                /\ DOMAIN registry' = DOMAIN registry \cup {thread[t].id}
                /\ \A i \in DOMAIN registry : registry'[i] = registry[i]
                /\ Cardinality(DOMAIN registry') = Cardinality(DOMAIN registry) + 1]_vars

\* one thread connected an id on an empty Host and disconnected it again,
\* Close reporting an error
C20_Witness ==
    /\ thread[1].pc = "idle" /\ thread[1].left = 0 /\ thread[2].left = 1
    /\ thread[1].op = "disconnect" /\ thread[1].result = "close error"
    /\ DOMAIN registry = {}
    /\ Len(clients) = 1
    /\ clients[1].type = InProcessConnectionType
    /\ clients[1].closes = 1 /\ ~clients[1].connected

(***************************************************************************)
(* The calls made through a session: ExecuteTool (EnsureConnection, then   *)
(* CallTool on the client of the returned connection),                     *)
(* SetGlobalNotificationHandler, and the notifications the servers push.   *)
(* Thread 1 makes these calls while thread 2 makes one connect,            *)
(* disconnect or EnsureConnection call.                                    *)
(***************************************************************************)
\* a caller starts ExecuteTool or SetGlobalNotificationHandler
InvokeSession(t) ==
    /\ thread[t].pc = "idle"
    /\ thread[t].left > 0
    /\ \E op \in {"execute", "setGlobal"}, id \in HostIds :
          /\ op = "setGlobal" => id = "a"
          /\ thread' = [thread EXCEPT ![t] =
                [pc |-> IF op = "execute" THEN "lookup" ELSE "setGlobal",
                 op |-> op, id |-> id, type |-> "",
                 conn |-> 0, nested |-> FALSE, left |-> thread[t].left - 1,
                 result |-> "", got |-> 0, old |-> 0, discs |-> 0]]
    /\ UNCHANGED <<registry, clients>>
    /\ UNCHANGED <<genVars, streamVars>>

CallToolMutant(t) ==
    /\ thread[t].pc = "callTool"
    /\ LET c == IF thread[t].nested THEN thread[t].old ELSE thread[t].conn
       IN  /\ clients' = [clients EXCEPT ![c].rpcs = @ + 1]
           /\ \E answered \in BOOLEAN :
                 /\ answered => clients[c].closes = 0
                 /\ Return(t, IF answered THEN "ok" ELSE "rpc error", c)
    /\ UNCHANGED registry
    /\ UNCHANGED <<genVars, streamVars>>

\* ExecuteTool: conn.Client.CallTool on the connection EnsureConnection
\* returned; a closed client cannot answer
CallTool(t) ==
    /\ thread[t].pc = "callTool"
    /\ clients' = [clients EXCEPT ![thread[t].conn].rpcs = @ + 1]
    /\ \E answered \in BOOLEAN :
          /\ answered => clients[thread[t].conn].closes = 0
          /\ Return(t, IF answered THEN "ok" ELSE "rpc error", thread[t].conn)
    /\ UNCHANGED registry
    /\ UNCHANGED <<genVars, streamVars>>

SetGlobalNotificationHandlerMutant(t) ==
    /\ thread[t].pc = "setGlobal"
    /\ clients' = [c \in DOMAIN clients |->
                      IF clients[c].session
                      THEN [clients[c] EXCEPT
                               !.wrappers = @ \cup {clients[c].serverId},
                               !.locked = @ \cup {"onNotification"}]
                      ELSE clients[c]]
    /\ Return(t, "ok", 0)
    /\ UNCHANGED registry
    /\ UNCHANGED <<genVars, streamVars>>

\* SetGlobalNotificationHandler: under the read lock, OnNotification on the
\* client of every registered connection, with a wrapper that holds the key
SetGlobalNotificationHandler(t) ==
    /\ thread[t].pc = "setGlobal"
    /\ clients' = [c \in DOMAIN clients |->
                      IF \E i \in DOMAIN registry : registry[i] = c
                      THEN [clients[c] EXCEPT
                               !.wrappers = @ \cup {i \in DOMAIN registry : registry[i] = c},
                               !.locked = @ \cup {"onNotification"}]
                      ELSE clients[c]]
    /\ Return(t, "ok", 0)
    /\ UNCHANGED registry
    /\ UNCHANGED <<genVars, streamVars>>

\* the server of an open client pushes a notification: every wrapper
\* attached to the client calls the global handler with its server id
Notification(c) ==
    /\ c \in DOMAIN clients
    /\ clients[c].session
    /\ clients[c].closes = 0
    /\ clients' = [clients EXCEPT ![c].pushed = TRUE,
                                  ![c].heard = @ \cup clients[c].wrappers]
    /\ UNCHANGED <<registry, thread>>
    /\ UNCHANGED <<genVars, streamVars>>

SessionNext ==
    \/ InvokeSession(1)
    \/ Invoke(2)
    \/ \E t \in Threads :
          \/ ConnectLookup(t)
          \/ ConnectBuild(t)
          \/ ConnectRegister(t)
          \/ DisconnectServer(t)
          \/ DisconnectAll(t)
          \/ EnsureLookup(t)
          \/ EnsurePing(t)
          \/ EnsureDisconnect(t)
          \/ CallTool(t)
          \/ SetGlobalNotificationHandler(t)
    \/ \E c \in DOMAIN clients : Notification(c)

SessionSpec == HostInit /\ [][SessionNext]_vars

\* the EnsureConnection of thread t returns in this step, to the caller or
\* into the ExecuteTool that called it
EnsureReturns(t) ==
    /\ thread[t].op \in {"ensure", "execute"}
    /\ thread[t].pc \in {"lookup", "ping", "ensureDisconnect", "check", "build", "register"}
    /\ thread'[t].pc \in {"idle", "callTool"}
\* ... without an error
EnsureSucceeds(t) ==
    /\ EnsureReturns(t)
    /\ thread'[t].pc = "idle" => thread'[t].result = "ok"
\* the connection it returns
EnsureReturned(t) ==
    IF thread'[t].pc = "callTool" THEN thread'[t].conn ELSE thread'[t].got

\* C21: when EnsureConnection returns without an error, the connection it
\* returns is the one registered under the id, is connected and its client
\* is not closed; after a failed ping of a Stdio or InProcess connection it
\* returns an error.
C21_EnsureLive ==
    [][\A t \in Threads :
          /\ EnsureSucceeds(t) =>
                LET c == EnsureReturned(t)
                IN  /\ thread[t].id \in DOMAIN registry'
                    /\ registry'[thread[t].id] = c
                    /\ clients'[c].connected
                    /\ clients'[c].closes = 0
          /\ (EnsureReturns(t) /\ thread[t].pc = "ensureDisconnect")
                => thread'[t].pc = "idle" /\ thread'[t].result = "can not reconnect"]_vars

\* thread 2, which makes one call, has made none on the id of the call
\* thread 1 is in
Alone ==
    \/ thread[2].op = ""
    \/ thread[2].id # thread[1].id /\ thread[2].op # "disconnectAll"

\* C22: in an ExecuteTool on an SSE connection whose Ping fails and whose
\* reconnect succeeds, with no concurrent call on the same id:
\* DisconnectServer is called once and closes and removes the old
\* connection; the new connection is registered under the same id,
\* connected; CallTool is sent on the new client and on no other, and
\* ExecuteTool returns what CallTool returned.
C22_ReconnectSuccess ==
    [][(Alone /\ thread[1].op = "execute") =>
          LET id   == thread[1].id
              conn == thread[1].conn
              old  == thread[1].old
          IN  /\ (Steps(1, "ensureDisconnect")
                       /\ clients[conn].type = SSEConnectionType)
                    => /\ registry[id] = conn
                       /\ id \notin DOMAIN registry'
                       /\ clients'[conn].closes = 1
                       /\ ~clients'[conn].connected
                       /\ thread'[1].pc = "check"
                       /\ thread'[1].old = conn
                       /\ thread'[1].discs = 1
              /\ (Steps(1, "register") /\ thread[1].nested)
                    => /\ id \notin DOMAIN registry
                       /\ registry' = Registered(registry, id, conn)
                       /\ conn # old
                       /\ clients'[conn].serverId = id
                       /\ clients'[conn].type = SSEConnectionType
                       /\ clients'[conn].connected
                       /\ clients'[conn].closes = 0
                       /\ clients'[conn].rpcs = 0
                       /\ clients'[old].closes = 1
                       /\ thread'[1].pc = "callTool"
                       /\ thread'[1].conn = conn
                       /\ thread'[1].discs = 1
              /\ (Steps(1, "callTool") /\ thread[1].nested)
                    => /\ registry[id] = conn
                       /\ clients'[conn].rpcs = clients[conn].rpcs + 1
                       /\ \A c \in DOMAIN clients \ {conn} : clients'[c] = clients[c]
                       /\ clients[old].closes = 1
                       /\ thread[1].discs = 1
                       /\ thread'[1].pc = "idle"
                       /\ thread'[1].got = conn
                       /\ thread'[1].result \in {"ok", "rpc error"}
                       /\ clients[conn].closes = 0 \/ thread'[1].result = "rpc error"]_vars

\* ExecuteTool on the SSE session a has returned the result of the CallTool
\* sent on the client of the reconnect; the old client is closed and was
\* sent nothing
C22_Witness ==
    /\ thread[1].pc = "idle" /\ thread[1].op = "execute" /\ thread[1].id = "a"
    /\ thread[1].result = "ok" /\ thread[1].got = 2
    /\ thread[1].left = MaxOps - 1
    /\ thread[2].op = ""
    /\ Len(clients) = 2
    /\ clients[1].type = SSEConnectionType
    /\ clients[1].closes = 1 /\ clients[1].rpcs = 0
    /\ clients[2].closes = 0 /\ clients[2].rpcs = 1 /\ clients[2].connected
    /\ DOMAIN registry = {"a"} /\ registry["a"] = 2

\* the other thread has made no call on the id of the call thread t is in
Quiet(t) == IF t = 1 THEN Alone ELSE thread[1].op = ""

\* C23: when the Ping of an SSE connection fails in EnsureConnection and the
\* reconnect fails too, with no concurrent call on the same id, the call
\* ends there with the reconnect error: no further connect is tried, no
\* CallTool is sent, the registry has no entry for the id, the old client
\* is closed and the client of the reconnect, if one was created, is closed.
C23_ReconnectFailure ==
    [][\A t \in Threads :
          (/\ Quiet(t)
           /\ thread[t].nested
           /\ Steps(t, "check") \/ Steps(t, "build")
           /\ thread'[t].pc \notin {"build", "register"})
             => /\ thread'[t].pc = "idle"
                /\ thread'[t].result = "can not reconnect"
                /\ thread'[t].got = 0
                /\ thread[t].discs = 1
                /\ thread[t].id \notin DOMAIN registry'
                /\ registry' = registry
                /\ clients'[thread[t].old].closes = 1
                /\ \A c \in DOMAIN clients : clients'[c] = clients[c]
                /\ Len(clients') <= Len(clients) + 1
                /\ \A c \in DOMAIN clients' :
                      /\ (c > Len(clients) => clients'[c].closes = 1)
                      /\ (clients'[c].serverId = thread[t].id
                             => clients'[c].closes >= 1 /\ ~clients'[c].connected)]_vars

\* ExecuteTool on the SSE session a has returned the reconnect error: the
\* old client and the client whose Initialize failed are closed, nothing
\* was sent and the registry is empty
C23_Witness ==
    /\ thread[1].pc = "idle" /\ thread[1].op = "execute" /\ thread[1].id = "a"
    /\ thread[1].result = "can not reconnect"
    /\ thread[2].op = ""
    /\ Len(clients) = 2
    /\ clients[1].type = SSEConnectionType /\ clients[1].closes = 1
    /\ clients[2].failed = "init failed" /\ clients[2].closes = 1
    /\ \A c \in DOMAIN clients : clients[c].rpcs = 0
    /\ DOMAIN registry = {}

\* the ids client c is registered under
KeysOf(c) == {i \in DOMAIN registry : registry[i] = c}

C28_LockDiscipline ==
    \A c \in DOMAIN clients : clients[c].locked = {}

(***************************************************************************)
(* OpenAIClient.handleStreamResponse: the loop that reads a streamed chat  *)
(* completion chunk by chunk.  Strings are sequences of tokens, a          *)
(* strings.Builder is the sequence written so far.                         *)
(***************************************************************************)
\* chunks one stream delivers before it ends
MaxChunks == 3

\* choice.Delta of a chunk
ChunkDeltas == [content : {"", "x", "y"}, reasoning : {"", "r"}, role : {"", "assistant"}]

\* strings.Builder.WriteString
WriteString(sb, str) == IF str = "" THEN sb ELSE Append(sb, str)

\* gen := &Generation{Usage: &Usage{}, GenerationInfo: ...}
StreamGeneration == [role |-> "", content |-> <<>>, reasoningContent |-> <<>>]

StreamInit ==
    /\ \E hasSink \in BOOLEAN :
          stream = [pc |-> "recv", gen |-> StreamGeneration, contentSb |-> <<>>,
                    reasoningContentSb |-> <<>>, noRole |-> TRUE, hasSink |-> hasSink,
                    chunks |-> 0, received |-> <<>>, cause |-> "",
                    ret |-> [status |-> "none", hasGen |-> FALSE, gen |-> StreamGeneration]]
    /\ pc = "idle"
    /\ opts = [mode |-> FunctionCallMode, auto |-> FALSE, maxRounds |-> 1,
               taskTag |-> MCP_DEFAULT_TASK_TAG, resultTag |-> MCP_DEFAULT_RESULT_TAG,
               stream |-> TRUE, notify |-> FALSE, callback |-> "nil", disabled |-> {},
               entry |-> "Generate", systemPrompt |-> "sys"]
    /\ connections = BothServers
    /\ script = AllHealthy
    /\ tools = {}
    /\ listOk = {}
    /\ textCatalog = {}
    /\ textListOk = {}
    /\ gen = NoGen
    /\ currentGen = NoGen
    /\ allTaskResults = <<>>
    /\ executionRound = 0
    /\ capturedOutput = <<>>
    /\ hasExecuted = FALSE
    /\ llmLog = <<>>
    /\ callLog = <<>>
    /\ sink = <<>>
    /\ events = <<>>
    /\ ret = [status |-> "none", gen |-> NoGen]
    /\ registry = <<>>
    /\ clients = <<>>
    /\ thread = <<>>

\* handleStreamResponse returns (g, err), g = nil when hasGen is false
StreamReturn(st, cause, status, hasGen) ==
    [st EXCEPT !.pc = "done", !.cause = cause,
               !.ret = [status |-> status, hasGen |-> hasGen,
                        gen |-> IF hasGen THEN st.gen ELSE StreamGeneration]]

\* stream.Recv() returns a chunk with a choice: the role of the first one,
\* the deltas written to the builders, then the streaming callback
RecvDelta ==
    /\ stream.pc = "recv"
    /\ stream.chunks < MaxChunks
    /\ \E d \in ChunkDeltas, sinkErr \in BOOLEAN :
          /\ sinkErr => stream.hasSink
          /\ LET st == [stream EXCEPT
                           !.chunks = @ + 1,
                           !.received = Append(@, d),
                           !.gen.role = IF stream.noRole THEN d.role ELSE @,
                           !.noRole = FALSE,
                           !.contentSb = WriteString(@, d.content),
                           !.reasoningContentSb = WriteString(@, d.reasoning)]
             IN  stream' = IF sinkErr
                           THEN StreamReturn(st, "sink", "error", TRUE)
                           ELSE st
    /\ UNCHANGED <<genVars, hostVars>>

\* stream.Recv() returns a chunk without choices: continue
RecvEmpty ==
    /\ stream.pc = "recv"
    /\ stream.chunks < MaxChunks
    /\ stream' = [stream EXCEPT !.chunks = @ + 1]
    /\ UNCHANGED <<genVars, hostVars>>

\* stream.Recv() returns context.Canceled: return gen, nil
RecvCanceled ==
    /\ stream.pc = "recv"
    /\ stream' = StreamReturn(stream, "canceled", "ok", TRUE)
    /\ UNCHANGED <<genVars, hostVars>>

\* stream.Recv() returns context.DeadlineExceeded: return gen, error
RecvDeadline ==
    /\ stream.pc = "recv"
    /\ stream' = StreamReturn(stream, "deadline", "error", TRUE)
    /\ UNCHANGED <<genVars, hostVars>>

\* stream.Recv() returns another error: return nil, error
RecvError ==
    /\ stream.pc = "recv"
    /\ stream' = StreamReturn(stream, "recv", "error", FALSE)
    /\ UNCHANGED <<genVars, hostVars>>

\* stream.Recv() returns io.EOF: the builders become the content
RecvEOF ==
    /\ stream.pc = "recv"
    /\ stream' = StreamReturn([stream EXCEPT
                                  !.gen.content = stream.contentSb,
                                  !.gen.reasoningContent = stream.reasoningContentSb],
                              "eof", "ok", TRUE)
    /\ UNCHANGED <<genVars, hostVars>>

StreamNext ==
    \/ RecvDelta
    \/ RecvEmpty
    \/ RecvCanceled
    \/ RecvDeadline
    \/ RecvError
    \/ RecvEOF

StreamSpec == StreamInit /\ [][StreamNext]_vars

\* the concatenation of one field of the deltas received
RECURSIVE Concatenated(_, _)
Concatenated(deltas, content) ==
    IF deltas = <<>> THEN <<>>
    ELSE LET d == deltas[Len(deltas)]
         IN  WriteString(Concatenated(SubSeq(deltas, 1, Len(deltas) - 1), content),
                         IF content THEN d.content ELSE d.reasoning)

\* C27: when the stream read is cancelled, handleStreamResponse returns
\* without error a Generation whose content and reasoning content are the
\* concatenation of the deltas received before; a deadline-exceeded read
\* is returned as an error.
C27_CancelMidStream ==
    /\ stream.cause = "canceled"
          => /\ stream.ret.status = "ok"
             /\ stream.ret.hasGen
             /\ stream.ret.gen.content = Concatenated(stream.received, TRUE)
             /\ stream.ret.gen.reasoningContent = Concatenated(stream.received, FALSE)
    /\ stream.cause = "deadline" => stream.ret.status = "error"

\* C25: a Generate call with autoExecute = true and round budget K >= 1
\* terminates, whatever the LLM and the servers answer; the round counter
\* never exceeds K, tools are dispatched only in a round numbered 1..K, and
\* at most K + 1 LLM calls are made.
C25_BoundedLoop ==
    /\ []((opts.auto /\ opts.maxRounds >= 1)
             => /\ executionRound <= opts.maxRounds
                /\ Len(llmLog) <= opts.maxRounds + 1)
    /\ [][(opts.auto /\ opts.maxRounds >= 1 /\ callLog' # callLog)
             => /\ executionRound' = executionRound
                /\ executionRound \in 1..opts.maxRounds]_vars
    /\ ((opts.auto /\ opts.maxRounds >= 1) => <>(pc = "done"))

\* a run with budget 2 has ended after two rounds that dispatched tools and
\* three LLM calls
C25_Witness ==
    /\ pc = "done" /\ opts.auto /\ opts.maxRounds = 2
    /\ executionRound = 2
    /\ Len(llmLog) = 3
    /\ Len(callLog) >= 2
    /\ ret.status = "ok"

\* C26: in FunctionCallMode with autoExecute = false, when the LLM returns n
\* native tool calls, Generate returns them unchanged, the returned content
\* is the LLM's content followed by n blocks wrapped in the configured task
\* tag, one per tool call and in their order, and no callTool is issued.
C26_EchoNoAuto ==
    (Returned /\ opts.mode = FunctionCallMode /\ ~opts.auto)
        => LET reply == ReplyTable[llmLog[1].reply]
               calls == reply.toolCalls
           IN  /\ ret.status = "ok"
               /\ ret.gen.toolCalls = calls
               /\ callLog = <<>>
               /\ ret.gen.content =
                     reply.content
                       \o (IF Len(calls) = 0 THEN <<>> ELSE <<Text("\n\n")>>)
                       \o [i \in 1..Len(calls) |-> EchoBlock(opts.taskTag, calls[i])]

\* the positions in events of the events of a type and stage that name a
\* server and tool some call was dispatched to
ToolEventPositions(type, stage) ==
    SelectSeq([i \in 1..Len(events) |-> i],
              LAMBDA i : /\ events[i].type = type
                         /\ events[i].stage = stage
                         /\ \E k \in 1..Len(callLog) :
                               /\ callLog[k].server = events[i].server
                               /\ callLog[k].tool = events[i].tool)

\* C29: with a StateNotifyFunc set, with or without a StreamingFunc, every
\* call dispatched to the Host has one tool_call{start} and one
\* tool_result{complete} event for its server and tool, the first before
\* the second, the pairs in dispatch order and after the
\* execution_round{start} of the round of the call.
C29_ToolEventPairs ==
    (opts.notify /\ pc \in {"afterRound", "loop", "finish", "done"})
        => LET starts  == ToolEventPositions("tool_call", "start")
               results == ToolEventPositions("tool_result", "complete")
           IN  /\ Len(starts) = Len(callLog)
               /\ Len(results) = Len(callLog)
               /\ \A k \in 1..Len(callLog) :
                     /\ events[starts[k]].server = callLog[k].server
                     /\ events[starts[k]].tool = callLog[k].tool
                     /\ events[results[k]].server = callLog[k].server
                     /\ events[results[k]].tool = callLog[k].tool
                     /\ starts[k] < results[k]
                     /\ k < Len(callLog) => results[k] < starts[k + 1]
                     /\ \E j \in 1..starts[k] :
                           /\ events[j].type = "execution_round"
                           /\ events[j].round = callLog[k].round

\* C30: in a Generate run that entered the loop and returned successfully,
\* with a StateNotifyFunc set: process_start is the first event; there is
\* one execution_round{start} event per round, numbered 1, 2, ... with
\* max_rounds the budget the loop enforces; process_complete{complete} is
\* emitted once, as the last event, and its execution_rounds is the
\* mcp_execution_rounds of the returned Generation.
C30_EventLifecycle ==
    (Returned /\ Looped /\ opts.notify)
        => LET rounds == EventsOf("execution_round", "start")
               last   == events[Len(events)]
           IN  /\ events[1].type = "process_start"
               /\ Len(rounds) = executionRound
               /\ \A k \in 1..Len(rounds) :
                     /\ rounds[k].round = k
                     /\ rounds[k].n = maxRoundsOf(opts)
               /\ Len(EventsOf("process_complete", "complete")) = 1
               /\ last.type = "process_complete" /\ last.stage = "complete"
               /\ ret.gen.info.hasRounds
               /\ last.round = ret.gen.info.rounds

\* C31: the StateNotifyFunc is advisory.  Whether it returns nil, returns an
\* error or panics, a Generate call that has ended has ended as it does with
\* a callback returning nil: it returned a Generation or an error, an error
\* only for a blank prompt, a failed LLM call or a parse error, and when the
\* first generation held a tool request of an auto-executing run the loop
\* ran its first round.
C31_AdvisoryCallback ==
    (pc = "done" /\ opts.notify)
        => /\ ret.status \in {"ok", "error"}
           /\ ret.status = "error"
                 => \/ BlankPrompt(opts)
                    \/ Len(llmLog) > 0 /\ llmLog[Len(llmLog)].reply = "fail"
                    \/ /\ opts.mode = TextMode
                       /\ ParsedTasks(currentGen.content, opts.taskTag).err # ""
           /\ (opts.auto /\ gen # NoGen /\ hasToolCalls(gen)) => executionRound >= 1

\* C32: in TextMode the message list of every feedback LLM call is, in
\* order: one system message, the original user message, one user message
\* per entry of the ledger as it is at the call, in ledger order (error
\* template for an entry with an error, result template otherwise), and one
\* guidance user message (next-round guidance for an intermediate call,
\* finalResultMsgTemplate for the terminal call); it holds no assistant
\* message.
C32_TextFeedbackLayout ==
    opts.mode = TextMode
        => \A i \in 2..Len(llmLog) :
              LET m == llmLog[i].messages
                  n == llmLog[i].results
                  ledger == SubSeq(allTaskResults, 1, n)
              IN  /\ Len(m) = n + 3
                  /\ m[1] = Message("system", "systemPrompt", <<>>)
                  /\ m[2] = Message("user", "prompt", <<>>)
                  /\ \A k \in 1..n :
                        m[2 + k] = Message("user",
                                           IF ledger[k].error # ""
                                           THEN "toolErrorMsgTemplate"
                                           ELSE "toolResultMsgTemplate",
                                           <<ledger[k]>>)
                  /\ m[n + 3] = Message("user",
                                        IF llmLog[i].kind = "final"
                                        THEN "finalResultMsgTemplate"
                                        ELSE "nextRoundMsgTemplate",
                                        <<>>)
                  /\ \A k \in 1..Len(m) : m[k].role # "assistant"

\* the outcome entry a dispatched native call leaves in a generationInfo
OutcomeOf(call) ==
    IF call.err # "" THEN <<"tool_error", call.id, call.err>>
    ELSE <<"tool_result", call.id, ContentOf(call.tool)>>

\* C33: in a FunctionCallMode run that returned after the loop, for every
\* native tool call dispatched in any round, the generationInfo of the
\* returned Generation holds exactly one of tool_result_<id> and
\* tool_error_<id>, with the outcome of that call.
C33_CarryForward ==
    (Looped /\ opts.mode = FunctionCallMode)
        => \A k \in 1..Len(callLog) :
              {e \in ret.gen.info.tool : e[2] = callLog[k].id} = {OutcomeOf(callLog[k])}

\* the TaskResult the ledger holds for a dispatched task
ResultOf(call) ==
    [task   |-> [server |-> call.server, tool |-> call.tool, text |-> call.text],
     result |-> IF call.err = "" THEN ContentOf(call.tool) ELSE "",
     error  |-> call.err]

\* C34: in TextMode the ledger holds, at every moment, one TaskResult per
\* task dispatched to the Host so far, in dispatch order, each with a result
\* or an error and never both; it only grows, no entry being changed or
\* removed; and a run that returns after the loop with a non-empty ledger
\* returns all of it as mcp_task_results.
C34_LedgerComplete ==
    /\ [](opts.mode = TextMode
             => /\ Len(allTaskResults) = Len(callLog)
                /\ \A k \in 1..Len(callLog) :
                      /\ allTaskResults[k] = ResultOf(callLog[k])
                      /\ (allTaskResults[k].result = "") # (allTaskResults[k].error = "")
                      /\ k > 1 => callLog[k - 1].round <= callLog[k].round
                /\ (Looped /\ allTaskResults # <<>>)
                      => /\ ret.gen.info.hasTaskResults
                         /\ ret.gen.info.taskResults = allTaskResults)
    /\ [][/\ Len(allTaskResults') >= Len(allTaskResults)
          /\ SubSeq(allTaskResults', 1, Len(allTaskResults)) = allTaskResults]_vars

\* a run of two rounds has returned a ledger of three entries, of which one
\* holds an error
C34_Witness ==
    /\ Looped /\ opts.mode = TextMode
    /\ Len(ret.gen.info.taskResults) = 3
    /\ callLog[1].round = 1 /\ callLog[3].round = 2
    /\ \E k \in 1..3 : ret.gen.info.taskResults[k].error # ""
    /\ \E k \in 1..3 : ret.gen.info.taskResults[k].error = ""

\* the batches of result records the streaming sink received, in order
Batches == SelectSeq(sink, LAMBDA d : d.k = "results")
\* the Host.ExecuteTool calls of round r, in order
CallsOf(r) == SelectSeq(callLog, LAMBDA c : c.round = r)
\* the rounds in which a tool was executed, in order
ExecutingRounds ==
    SelectSeq([r \in 1..executionRound |-> r], LAMBDA r : CallsOf(r) # <<>>)

\* C35: with a streaming sink, in both work modes, every round that
\* executed tools delivers one batch of MCPToolExecutionResult records to
\* the sink, one record per executed tool in dispatch order; every record
\* has status success or error, carries the result when the status is
\* success and the error string when it is error, as stored for that task
\* or tool-call id.
C35_StreamedRecords ==
    opts.stream
        => /\ Len(Batches) = Len(ExecutingRounds)
           /\ \A b \in 1..Len(ExecutingRounds) :
                 LET calls == CallsOf(ExecutingRounds[b])
                     recs  == Batches[b].batch
                 IN  /\ Len(recs) = Len(calls)
                     /\ \A j \in 1..Len(calls) :
                           /\ recs[j].server = calls[j].server
                           /\ recs[j].tool = calls[j].tool
                           /\ recs[j].id = calls[j].id
                           /\ recs[j].status \in {"success", "error"}
                           /\ recs[j].status = "error" <=> calls[j].err # ""
                           /\ recs[j].error = calls[j].err
                           /\ recs[j].result = ResultOf(calls[j]).result

\* the content of the generation round r examined: that of LLM call r
RoundContent(r) == ReplyTable[llmLog[r].reply].content
\* the bodies of the tag blocks of a content that lie after its last </think>
BodiesAfterThink(content) ==
    {tok.body : tok \in {t \in Range(AfterLastThink(content)) : t.k = "block"}}

\* C36: in TextMode only the tag blocks after the last </think> of a
\* generation are extracted and dispatched, a block that appears only
\* before it causes no dispatch; and Generate enters the loop exactly when
\* the text after the last </think> of the first generation holds a tag
\* block, returning the first generation otherwise.
C36_ThinkStripped ==
    opts.mode = TextMode
        => /\ \A k \in 1..Len(callLog) :
                 callLog[k].text \in BodiesAfterThink(RoundContent(callLog[k].round))
           /\ (Returned /\ opts.auto)
                 => (Looped <=> containsMCPTasks(AfterLastThink(gen.content),
                                                 opts.taskTag))

\* both threads have returned from an EnsureConnection of the same id,
\* whose sessions are SSE sessions, without an error
BothEnsured ==
    /\ Quiescent
    /\ \A t \in Threads : thread[t].op = "ensure" /\ thread[t].result = "ok"
    /\ thread[1].id = thread[2].id
    /\ \A c \in DOMAIN clients :
          clients[c].serverId = thread[1].id => clients[c].type = SSEConnectionType

\* C37: when two threads run EnsureConnection for the same SSE id
\* concurrently, the DisconnectServer a thread calls after a failed ping
\* closes only the session whose ping failed; and after both calls have
\* returned without error one session is registered under the id, it is
\* connected, and every other client created for the id has been closed.
C37_ConcurrentEnsure ==
    /\ [][\A t \in Threads :
             (/\ Steps(t, "ensureDisconnect")
              /\ \A u \in Threads :
                    thread[u].op = "ensure" /\ thread[u].id = thread[t].id
              /\ clients[thread[t].conn].type = SSEConnectionType
              /\ thread[t].id \in DOMAIN registry)
                => registry[thread[t].id] = thread[t].conn]_vars
    /\ [](BothEnsured
             => LET id == thread[1].id
                IN  /\ id \in DOMAIN registry
                    /\ clients[registry[id]].connected
                    /\ clients[registry[id]].closes = 0
                    /\ \A c \in DOMAIN clients :
                          (clients[c].serverId = id /\ c # registry[id])
                             => clients[c].closes >= 1)

\* C38: whatever the other thread does (disconnect, disconnectAll, connect,
\* EnsureConnection), ExecuteTool never sends CallTool on a client on which
\* Close has been called.
C38_NoRpcOnClosed ==
    [][\A t \in Threads :
          Steps(t, "callTool") => clients[thread[t].conn].closes = 0]_vars

\* C39: within one TextMode round each distinct task text is dispatched at
\* most once: two tag blocks with the same JSON text in one content, or a
\* block found by the scan of the configured tag and by the scan of the
\* fallback tag (configured tag "tools"), give one Host.ExecuteTool call.
C39_OncePerRound ==
    opts.mode = TextMode
        => \A i, j \in 1..Len(callLog) :
              (i < j /\ callLog[i].round = callLog[j].round)
                  => callLog[i].text # callLog[j].text

\* the contents of the generations of the first n LLM calls, in order
RECURSIVE ContentsUpTo(_)
ContentsUpTo(n) ==
    IF n = 0 THEN <<>>
    ELSE ContentsUpTo(n - 1) \o ReplyTable[llmLog[n].reply].content

\* C40: a Generate call with autoExecute = true and no streaming sink that
\* entered the loop and returned successfully returns a content that
\* holds, in order and each once, the content of every generation the LLM
\* produced during the run, the last one (the final answer) included.
C40_NonStreamedContent ==
    (Looped /\ opts.auto /\ ~opts.stream)
        => SelectSeq(ret.gen.content, LAMBDA tok : tok.k # "open")
              = ContentsUpTo(Len(llmLog))

====
